---- MODULE Spec2Model ----
(***************************************************************************)
(* fast-alloc: the fixed-block pool allocator (PoolAllocator), its         *)
(* lock-free tagged-pointer variant and its mutex variant                  *)
(* (ThreadSafePoolAllocator) and the free-list allocator                   *)
(* (FreeListAllocator), as state machines.                                 *)
(*                                                                         *)
(* One allocator object is constructed per behaviour; `engine` says which. *)
(* Addresses are integers: a pool's region starts at MemBase and its slot  *)
(* i is the address MemBase + i * BlockSize. For a pool `mem` holds the     *)
(* first machine word of every slot (the intrusive link), for the free     *)
(* list every word of the region.                                          *)
(***************************************************************************)
EXTENDS Integers, Sequences, FiniteSets, TLC

VARIABLES engine, ndebug, obj, mem, th, held, last, hist, aborted

vars == <<engine, ndebug, obj, mem, th, held, last, hist, aborted>>

---------------------------------------------------------------------------
(* Bounds of the model *)

MaxBlocks == 3
\* the largest block_count a pool is constructed with

MaxSharedBlocks == 3
\* the largest block_count a concurrent pool is constructed with

MaxOps == 3
\* calls each thread of the concurrent pool issues

SizeBits == 8
\* width of std::size_t in the model: arithmetic on counters is modulo 2^SizeBits

MemBase == 16
\* the address aligned_alloc returns for the region

BlockSize == 8
\* block_size, the constructor's first argument (>= sizeof(void*))

Threads == {1, 2}

---------------------------------------------------------------------------
(* Addresses and machine words *)

NULL == 0

SizeMod == 2 ^ SizeBits

SlotAddr(i) == MemBase + i * BlockSize

\* the slot addresses of a region of block_count slots
Slots(block_count) == {SlotAddr(i) : i \in 0 .. (block_count - 1)}

\* an address that belongs to no pool of the model (another object's memory)
Foreign == SlotAddr(MaxBlocks + 1)

\* the addresses whose first word the model keeps
Addrs(block_count) == Slots(block_count) \cup {Foreign}

\* the values a client stores in the first word of a block it owns
Words(block_count) == Slots(block_count) \cup {NULL}

NoCall == [op |-> "none", arg |-> NULL, ret |-> NULL]

Call(op, arg, ret) == [op |-> op, arg |-> arg, ret |-> ret]

\* a client's holdings: how many live allocations it has of each address
NoneHeld(block_count) == [a \in Addrs(block_count) |-> 0]

Take(h, a) == [h EXCEPT ![a] = @ + 1]

Give(h, a) == [h EXCEPT ![a] = IF @ > 0 THEN @ - 1 ELSE 0]

HeldSet(h) == {a \in DOMAIN h : h[a] > 0}

---------------------------------------------------------------------------
(* The free chain: the slots reached from a head by following the links *)

RECURSIVE ChainFrom(_, _, _)
ChainFrom(p, m, fuel) ==
    IF p = NULL \/ fuel = 0 \/ p \notin DOMAIN m
    THEN <<>>
    ELSE <<p>> \o ChainFrom(m[p], m, fuel - 1)

\* the walk from p reaches nullptr within fuel links
RECURSIVE ReachesNull(_, _, _)
ReachesNull(p, m, fuel) ==
    IF p = NULL THEN TRUE
    ELSE IF fuel = 0 \/ p \notin DOMAIN m THEN FALSE
    ELSE ReachesNull(m[p], m, fuel - 1)

Range(s) == {s[i] : i \in 1 .. Len(s)}

NoDuplicates(s) == \A i, j \in 1 .. Len(s) : i # j => s[i] # s[j]

---------------------------------------------------------------------------
(* PoolAllocator (single-threaded) *)

\* PoolAllocator::PoolAllocator: the link words the constructor writes
PoolAllocator_links(block_count) ==
    [a \in Addrs(block_count) |->
        IF a \in Slots(block_count) /\ a # SlotAddr(block_count - 1)
        THEN a + BlockSize
        ELSE NULL]

\* PoolAllocator::PoolAllocator: the object after construction
PoolAllocator_ctor(block_size, block_count) ==
    [block_size_ |-> block_size,
     block_count_ |-> block_count,
     allocated_count_ |-> 0,
     memory_ |-> MemBase,
     free_list_ |-> MemBase]

\* allocate without the increment of allocated_count_
PoolAllocator_allocate_fn_nocount(o, m) ==
    IF o.free_list_ = NULL
    THEN [obj |-> o, ret |-> NULL]
    ELSE [obj |-> [o EXCEPT !.free_list_ = m[o.free_list_]],
          ret |-> o.free_list_]

\* PoolAllocator::allocate as a function of the object and the memory
PoolAllocator_allocate_fn(o, m) ==
    IF o.free_list_ = NULL
    THEN [obj |-> o, ret |-> NULL]
    ELSE [obj |-> [o EXCEPT !.free_list_ = m[o.free_list_],
                            !.allocated_count_ = (@ + 1) % SizeMod],
          ret |-> o.free_list_]

\* the assertion of PoolAllocator::deallocate fails (assertions compiled in)
PoolAllocator_assert_fails(o, nd) == ~nd /\ ~(o.allocated_count_ > 0)

\* deallocate without the store of the old head into the released block
PoolAllocator_deallocate_fn_nolink(o, m, ptr) ==
    [obj |-> [o EXCEPT !.free_list_ = ptr,
                       !.allocated_count_ = (@ - 1) % SizeMod],
     mem |-> m]

\* deallocate without the decrement of allocated_count_
PoolAllocator_deallocate_fn_nocount(o, m, ptr) ==
    [obj |-> [o EXCEPT !.free_list_ = ptr],
     mem |-> [m EXCEPT ![ptr] = o.free_list_]]

\* deallocate that links the released block behind the head instead of before it
PoolAllocator_deallocate_fn_behind(o, m, ptr) ==
    IF o.free_list_ = NULL
    THEN [obj |-> [o EXCEPT !.free_list_ = ptr,
                            !.allocated_count_ = (@ - 1) % SizeMod],
          mem |-> [m EXCEPT ![ptr] = NULL]]
    ELSE [obj |-> [o EXCEPT !.allocated_count_ = (@ - 1) % SizeMod],
          mem |-> [m EXCEPT ![ptr] = m[o.free_list_], ![o.free_list_] = ptr]]

\* PoolAllocator::deallocate past the null check and the assertion
PoolAllocator_deallocate_fn(o, m, ptr) ==
    [obj |-> [o EXCEPT !.free_list_ = ptr,
                       !.allocated_count_ = (@ - 1) % SizeMod],
     mem |-> [m EXCEPT ![ptr] = o.free_list_]]

capacity == obj.block_count_

allocated == obj.allocated_count_

is_full == allocated >= obj.block_count_

\* What the pool's client has seen so far (history, read by no operation):
\*   fill    the results of the allocate calls made since construction, while no
\*           block has been released yet (the first block_count + 1 of them);
\*   freed   once every slot has been handed out: the released blocks that have
\*           not been handed out again, most recent first;
\*   violation  a release of a pointer the client did not hold went through.
PoolHistInit(block_count) ==
    [block_count |-> block_count,
     violation |-> FALSE,
     filling |-> TRUE, fill |-> <<>>,
     draining |-> FALSE, freed |-> <<>>]

PoolHistAllocate(h, ret, held_after) ==
    [h EXCEPT
       !.fill = IF h.filling /\ Len(@) <= h.block_count THEN Append(@, ret) ELSE @,
       !.draining = @ \/ HeldSet(held_after) = Slots(h.block_count),
       !.freed = IF h.draining /\ ret # NULL /\ @ # <<>> THEN Tail(@) ELSE @]

PoolHistDeallocate(h, ptr, held_before) ==
    [h EXCEPT
       !.violation = @ \/ held_before[ptr] = 0,
       !.filling = FALSE,
       !.fill = <<>>,
       !.freed = IF h.draining THEN <<ptr>> \o @ ELSE @]

PoolInit ==
    /\ engine = "pool"
    /\ ndebug \in BOOLEAN
    /\ \E block_count \in 1 .. MaxBlocks :
         /\ obj = PoolAllocator_ctor(BlockSize, block_count)
         /\ mem = PoolAllocator_links(block_count)
         /\ held = NoneHeld(block_count)
         /\ hist = PoolHistInit(block_count)
    /\ th = <<>>
    /\ last = NoCall
    /\ aborted = FALSE

PoolAllocator_allocate ==
    /\ engine = "pool" /\ ~aborted
    /\ LET r == PoolAllocator_allocate_fn(obj, mem) IN
         /\ obj' = r.obj
         /\ held' = IF r.ret = NULL THEN held ELSE Take(held, r.ret)
         /\ last' = Call("allocate", NULL, r.ret)
         /\ hist' = PoolHistAllocate(hist, r.ret, held')
    /\ UNCHANGED <<engine, ndebug, mem, th, aborted>>

PoolAllocator_deallocate(ptr) ==
    /\ engine = "pool" /\ ~aborted
    /\ last' = Call("deallocate", ptr, NULL)
    /\ IF ptr = NULL
       THEN UNCHANGED <<obj, mem, held, hist, aborted>>
       ELSE IF PoolAllocator_assert_fails(obj, ndebug)
       THEN aborted' = TRUE /\ UNCHANGED <<obj, mem, held, hist>>
       ELSE LET r == PoolAllocator_deallocate_fn(obj, mem, ptr) IN
              /\ obj' = r.obj
              /\ mem' = r.mem
              /\ held' = Give(held, ptr)
              /\ hist' = PoolHistDeallocate(hist, ptr, held)
              /\ UNCHANGED aborted
    /\ UNCHANGED <<engine, ndebug, th>>

\* the owner of a block stores a word at its start (object construction)
PoolClientWrite(a, w) ==
    /\ engine = "pool" /\ ~aborted
    /\ held[a] > 0
    /\ mem[a] # w
    /\ mem' = [mem EXCEPT ![a] = w]
    /\ UNCHANGED <<engine, ndebug, obj, th, held, last, hist, aborted>>

\* a client that keeps the contract: it releases null or a block it holds
PoolNext ==
    \/ PoolAllocator_allocate
    \/ engine = "pool" /\ \E ptr \in HeldSet(held) \cup {NULL} :
         PoolAllocator_deallocate(ptr)
    \/ engine = "pool" /\ \E a \in HeldSet(held) : \E w \in Words(obj.block_count_) :
         PoolClientWrite(a, w)

SpecPool == PoolInit /\ [][PoolNext]_vars

\* a debug build whose client may break the contract: it releases any address,
\* held or not, of the pool or not. The model follows the pool up to and
\* including the first release that breaks the contract.
PoolDebugInit == PoolInit /\ ndebug = FALSE

PoolDebugNext ==
    \/ ~hist.violation /\ PoolAllocator_allocate
    \/ \E ptr \in Addrs(obj.block_count_) \cup {NULL} :
         ~hist.violation /\ PoolAllocator_deallocate(ptr)
    \/ \E a \in HeldSet(held) : \E w \in Words(obj.block_count_) :
         ~hist.violation /\ PoolClientWrite(a, w)

SpecPoolDebug == PoolDebugInit /\ [][PoolDebugNext]_vars

\* the pool's free chain in the current state
PoolChain == ChainFrom(obj.free_list_, mem, obj.block_count_ + 1)

\* the results of n successive allocate calls from object o (no release between)
RECURSIVE AllocateTimes(_, _, _)
AllocateTimes(o, m, n) ==
    IF n = 0 THEN <<>>
    ELSE LET r == PoolAllocator_allocate_fn(o, m) IN
         <<r.ret>> \o AllocateTimes(r.obj, m, n - 1)

Min(a, b) == IF a < b THEN a ELSE b

---------------------------------------------------------------------------
(* ThreadSafePoolAllocator, lock-free variant with a tagged head.          *)
(* Every access to the shared head, to the counter and to a link word is   *)
(* one step; a thread's locals are th[t].                                   *)

TaggedPointer(ptr, tag) == [ptr |-> ptr, tag |-> tag]

\* a thread outside every call
Idle(ops) ==
    [pc |-> "idle", old_head |-> TaggedPointer(NULL, 0), next |-> NULL,
     ptr |-> NULL, ops |-> ops]

\* ThreadSafePoolAllocator::ThreadSafePoolAllocator (tagged variant)
TaggedPool_ctor(block_size, block_count) ==
    [block_size_ |-> block_size,
     block_count_ |-> block_count,
     allocated_count_ |-> 0,
     memory_ |-> MemBase,
     free_list_ |-> TaggedPointer(MemBase, 0)]

\* a compare_exchange_weak that never succeeds
CasMatches_never(current, expected) == FALSE

\* compare_exchange on the bare pointer, the tag ignored
CasMatches_untagged(current, expected) == current.ptr = expected.ptr

\* std::atomic<TaggedPointer>::compare_exchange_weak: the comparison of the
\* whole pair
CasMatches(current, expected) == current = expected

\* a compare-and-swap that installs the tag it replaced
NextTag_kept(tag) == tag

\* the tag after old_head.tag + 1 (std::uintptr_t)
NextTag(tag) == (tag + 1) % SizeMod

\* the two lock-free variants: the head is a TaggedPointer, or a bare pointer
\* (README.md 268-322: the same loops, free_list_ a std::atomic<void*>). A
\* bare head is kept as a pair whose tag is always 0, so that the comparison
\* of the pair is the comparison of the pointer.
CasEngines == {"tagged", "untagged"}

\* a compare-and-swap that leaves the head it read in place
NewHead_unchanged(ptr, old_head) == old_head

\* the value a successful compare-and-swap installs: new_head = {ptr,
\* old_head.tag + 1} in the tagged variant, ptr in the untagged one
NewHead(ptr, old_head) ==
    IF engine = "untagged"
    THEN TaggedPointer(ptr, 0)
    ELSE TaggedPointer(ptr, NextTag(old_head.tag))

TaggedInit ==
    /\ engine = "tagged"
    /\ ndebug = FALSE
    /\ \E block_count \in 1 .. MaxSharedBlocks :
         /\ obj = TaggedPool_ctor(BlockSize, block_count)
         /\ mem = PoolAllocator_links(block_count)
         /\ held = [t \in Threads |-> NoneHeld(block_count)]
    /\ th = [t \in Threads |-> Idle(0)]
    /\ last = NoCall
    /\ hist = <<>>
    /\ aborted = FALSE

\* allocate, line 387: the load of the head, and the loop test on it
Tagged_allocate_load(t) ==
    /\ engine \in CasEngines
    /\ th[t].pc = "idle" /\ th[t].ops < MaxOps
    /\ IF obj.free_list_.ptr = NULL
       THEN /\ th' = [th EXCEPT ![t] = Idle(th[t].ops + 1)]
            /\ last' = Call("allocate", NULL, NULL)
       ELSE /\ th' = [th EXCEPT ![t] = [@ EXCEPT !.pc = "a_read",
                                                 !.old_head = obj.free_list_,
                                                 !.ops = @ + 1]]
            /\ UNCHANGED last
    /\ UNCHANGED <<engine, ndebug, obj, mem, held, hist, aborted>>

\* a client owns block a: it holds it, or it has called deallocate(a) and the
\* call has not stored the link yet. The first word of such a block holds
\* whatever the client stored there (object data).
ClientOwned(a) ==
    \E u \in Threads : held[u][a] > 0 \/ (th[u].pc = "d_write" /\ th[u].ptr = a)

\* allocate, line 392: the read of the link word of the block at the head.
\* When the block has been handed out since the head was loaded, the read
\* yields the owner's data: any word.
Tagged_allocate_read(t) ==
    /\ engine \in CasEngines
    /\ th[t].pc = "a_read"
    /\ \E w \in Words(obj.block_count_) :
         /\ w = mem[th[t].old_head.ptr] \/ ClientOwned(th[t].old_head.ptr)
         /\ th' = [th EXCEPT ![t] = [@ EXCEPT !.pc = "a_cas", !.next = w]]
    /\ UNCHANGED <<engine, ndebug, obj, mem, held, last, hist, aborted>>

\* allocate, lines 397-409: the compare-and-swap; a failure reloads old_head
\* and runs the loop test again
Tagged_allocate_cas(t) ==
    /\ engine \in CasEngines
    /\ th[t].pc = "a_cas"
    /\ IF CasMatches(obj.free_list_, th[t].old_head)
       THEN /\ obj' = [obj EXCEPT !.free_list_ =
                          NewHead(th[t].next, th[t].old_head)]
            /\ th' = [th EXCEPT ![t] = [@ EXCEPT !.pc = "a_add"]]
            /\ UNCHANGED last
       ELSE IF obj.free_list_.ptr = NULL
       THEN /\ th' = [th EXCEPT ![t] = Idle(th[t].ops)]
            /\ last' = Call("allocate", NULL, NULL)
            /\ UNCHANGED obj
       ELSE /\ th' = [th EXCEPT ![t] = [@ EXCEPT !.pc = "a_read",
                                                 !.old_head = obj.free_list_,
                                                 !.next = NULL]]
            /\ UNCHANGED <<obj, last>>
    /\ UNCHANGED <<engine, ndebug, mem, held, hist, aborted>>

\* compare_exchange_weak may fail although the head equals old_head
Tagged_allocate_cas_spurious(t) ==
    /\ engine \in CasEngines
    /\ th[t].pc = "a_cas"
    /\ obj.free_list_ = th[t].old_head
    /\ th' = [th EXCEPT ![t] = [@ EXCEPT !.pc = "a_read", !.next = NULL]]
    /\ UNCHANGED <<engine, ndebug, obj, mem, held, last, hist, aborted>>

\* allocate, lines 404-405: the counter, and the return of the block
Tagged_allocate_fetch_add(t) ==
    /\ engine \in CasEngines
    /\ th[t].pc = "a_add"
    /\ obj' = [obj EXCEPT !.allocated_count_ = (@ + 1) % SizeMod]
    /\ held' = [held EXCEPT ![t] = Take(@, th[t].old_head.ptr)]
    /\ last' = Call("allocate", NULL, th[t].old_head.ptr)
    /\ th' = [th EXCEPT ![t] = Idle(th[t].ops)]
    /\ UNCHANGED <<engine, ndebug, mem, hist, aborted>>

\* deallocate, lines 417-422: the null check and the load of the head
Tagged_deallocate_load(t, ptr) ==
    /\ engine \in CasEngines
    /\ th[t].pc = "idle" /\ th[t].ops < MaxOps
    /\ IF ptr = NULL
       THEN /\ th' = [th EXCEPT ![t] = Idle(th[t].ops + 1)]
            /\ last' = Call("deallocate", NULL, NULL)
            /\ UNCHANGED held
       ELSE /\ th' = [th EXCEPT ![t] = [@ EXCEPT !.pc = "d_write",
                                                 !.old_head = obj.free_list_,
                                                 !.ptr = ptr,
                                                 !.ops = @ + 1]]
            /\ held' = [held EXCEPT ![t] = Give(@, ptr)]
            /\ UNCHANGED last
    /\ UNCHANGED <<engine, ndebug, obj, mem, hist, aborted>>

\* deallocate that does not store the head into the block's link word
Tagged_deallocate_write_skipped(t) ==
    /\ engine \in CasEngines
    /\ th[t].pc = "d_write"
    /\ th' = [th EXCEPT ![t] = [@ EXCEPT !.pc = "d_cas"]]
    /\ UNCHANGED <<engine, ndebug, obj, mem, held, last, hist, aborted>>

\* deallocate, line 428: the store of the head into the block's link word
Tagged_deallocate_write(t) ==
    /\ engine \in CasEngines
    /\ th[t].pc = "d_write"
    /\ mem' = [mem EXCEPT ![th[t].ptr] = th[t].old_head.ptr]
    /\ th' = [th EXCEPT ![t] = [@ EXCEPT !.pc = "d_cas"]]
    /\ UNCHANGED <<engine, ndebug, obj, held, last, hist, aborted>>

\* deallocate, lines 431-439: the compare-and-swap; a failure reloads old_head
Tagged_deallocate_cas(t) ==
    /\ engine \in CasEngines
    /\ th[t].pc = "d_cas"
    /\ IF CasMatches(obj.free_list_, th[t].old_head)
       THEN /\ obj' = [obj EXCEPT !.free_list_ =
                          NewHead(th[t].ptr, th[t].old_head)]
            /\ th' = [th EXCEPT ![t] = [@ EXCEPT !.pc = "d_sub"]]
       ELSE /\ th' = [th EXCEPT ![t] = [@ EXCEPT !.pc = "d_write",
                                                 !.old_head = obj.free_list_]]
            /\ UNCHANGED obj
    /\ UNCHANGED <<engine, ndebug, mem, held, last, hist, aborted>>

Tagged_deallocate_cas_spurious(t) ==
    /\ engine \in CasEngines
    /\ th[t].pc = "d_cas"
    /\ obj.free_list_ = th[t].old_head
    /\ th' = [th EXCEPT ![t] = [@ EXCEPT !.pc = "d_write"]]
    /\ UNCHANGED <<engine, ndebug, obj, mem, held, last, hist, aborted>>

\* deallocate that returns without the decrement of the counter
Tagged_deallocate_fetch_sub_skipped(t) ==
    /\ engine \in CasEngines
    /\ th[t].pc = "d_sub"
    /\ last' = Call("deallocate", th[t].ptr, NULL)
    /\ th' = [th EXCEPT ![t] = Idle(th[t].ops)]
    /\ UNCHANGED <<engine, ndebug, obj, mem, held, hist, aborted>>

\* deallocate, line 442: the counter, and the return
Tagged_deallocate_fetch_sub(t) ==
    /\ engine \in CasEngines
    /\ th[t].pc = "d_sub"
    /\ obj' = [obj EXCEPT !.allocated_count_ = (@ - 1) % SizeMod]
    /\ last' = Call("deallocate", th[t].ptr, NULL)
    /\ th' = [th EXCEPT ![t] = Idle(th[t].ops)]
    /\ UNCHANGED <<engine, ndebug, mem, held, hist, aborted>>

\* every thread releases null or a block it holds
TaggedNext ==
    \E t \in Threads :
       \/ Tagged_allocate_load(t)
       \/ Tagged_allocate_read(t)
       \/ Tagged_allocate_cas(t)
       \/ Tagged_allocate_cas_spurious(t)
       \/ Tagged_allocate_fetch_add(t)
       \/ engine \in CasEngines /\ \E ptr \in HeldSet(held[t]) \cup {NULL} :
            Tagged_deallocate_load(t, ptr)
       \/ Tagged_deallocate_write(t)
       \/ Tagged_deallocate_cas(t)
       \/ Tagged_deallocate_cas_spurious(t)
       \/ Tagged_deallocate_fetch_sub(t)

SpecTagged == TaggedInit /\ [][TaggedNext]_vars

\* a step of thread t inside a call
Tagged_in_call(t) ==
    /\ th[t].pc # "idle"
    /\ \/ Tagged_allocate_read(t)
       \/ Tagged_allocate_cas(t)
       \/ Tagged_allocate_cas_spurious(t)
       \/ Tagged_allocate_fetch_add(t)
       \/ Tagged_deallocate_write(t)
       \/ Tagged_deallocate_cas(t)
       \/ Tagged_deallocate_cas_spurious(t)
       \/ Tagged_deallocate_fetch_sub(t)

\* the tagged variant under a fair scheduler: a thread inside a call keeps
\* running, and compare_exchange_weak does not fail forever on a head that
\* equals the expected value
SpecTaggedFair ==
    /\ TaggedInit
    /\ [][TaggedNext]_vars
    /\ \A t \in Threads :
         /\ WF_vars(Tagged_in_call(t))
         /\ SF_vars(\/ Tagged_allocate_cas(t) /\ th'[t].pc = "a_add"
                    \/ Tagged_deallocate_cas(t) /\ th'[t].pc = "d_sub")

\* the untagged variant: the same pool, the head a bare pointer (pools one
\* slot smaller: the states of a corrupted pool are many)
UntaggedInit ==
    /\ engine = "untagged"
    /\ ndebug = FALSE
    /\ \E block_count \in 1 .. (MaxSharedBlocks - 1) :
         /\ obj = TaggedPool_ctor(BlockSize, block_count)
         /\ mem = PoolAllocator_links(block_count)
         /\ held = [t \in Threads |-> NoneHeld(block_count)]
    /\ th = [t \in Threads |-> Idle(0)]
    /\ last = NoCall
    /\ hist = <<>>
    /\ aborted = FALSE

SpecUntagged == UntaggedInit /\ [][TaggedNext]_vars

\* the shared pool's free chain in the current state
TaggedChain == ChainFrom(obj.free_list_.ptr, mem, obj.block_count_ + 1)

\* the single-threaded pool with the same free chain
SequentialPool ==
    [block_size_ |-> obj.block_size_,
     block_count_ |-> obj.block_count_,
     allocated_count_ |-> obj.block_count_ - Len(TaggedChain),
     memory_ |-> obj.memory_,
     free_list_ |-> obj.free_list_.ptr]

\* the number of live allocations of address a over all threads
RECURSIVE HoldersOf(_, _)
HoldersOf(a, ts) ==
    IF ts = {} THEN 0
    ELSE LET t == CHOOSE x \in ts : TRUE IN held[t][a] + HoldersOf(a, ts \ {t})

Quiescent == \A t \in Threads : th[t].pc = "idle"

---------------------------------------------------------------------------
(* ThreadSafePoolAllocator, mutex variant. obj.mutex_ is the thread that    *)
(* holds the lock, or Unlocked. Every statement under the lock is one step. *)

Unlocked == 0

\* a thread outside every call
MutexIdle(ops) == [pc |-> "idle", ptr |-> NULL, next |-> NULL, ops |-> ops]

\* ThreadSafePoolAllocator::ThreadSafePoolAllocator (mutex variant)
MutexPool_ctor(block_size, block_count) ==
    [block_size_ |-> block_size,
     block_count_ |-> block_count,
     allocated_count_ |-> 0,
     memory_ |-> MemBase,
     free_list_ |-> MemBase,
     mutex_ |-> Unlocked]

MutexInit ==
    /\ engine = "mutex"
    /\ ndebug = FALSE
    /\ \E block_count \in 1 .. MaxSharedBlocks :
         /\ obj = MutexPool_ctor(BlockSize, block_count)
         /\ mem = PoolAllocator_links(block_count)
         /\ held = [t \in Threads |-> NoneHeld(block_count)]
    /\ th = [t \in Threads |-> MutexIdle(0)]
    /\ last = NoCall
    /\ hist = <<>>
    /\ aborted = FALSE

\* allocate that enters without waiting for the lock
Mutex_allocate_lock_nowait(t) ==
    /\ engine = "mutex"
    /\ th[t].pc = "idle" /\ th[t].ops < MaxOps
    /\ obj' = [obj EXCEPT !.mutex_ = t]
    /\ th' = [th EXCEPT ![t] = [@ EXCEPT !.pc = "a_load", !.ops = @ + 1]]
    /\ UNCHANGED <<engine, ndebug, mem, held, last, hist, aborted>>

\* allocate, line 60: the lock_guard acquires mutex_ (it waits while it is held)
Mutex_allocate_lock(t) ==
    /\ engine = "mutex"
    /\ th[t].pc = "idle" /\ th[t].ops < MaxOps
    /\ obj.mutex_ = Unlocked
    /\ obj' = [obj EXCEPT !.mutex_ = t]
    /\ th' = [th EXCEPT ![t] = [@ EXCEPT !.pc = "a_load", !.ops = @ + 1]]
    /\ UNCHANGED <<engine, ndebug, mem, held, last, hist, aborted>>

\* allocate, lines 62-63: the load of the head; a null head unlocks and returns
Mutex_allocate_load(t) ==
    /\ engine = "mutex"
    /\ th[t].pc = "a_load"
    /\ IF obj.free_list_ = NULL
       THEN /\ obj' = [obj EXCEPT !.mutex_ = Unlocked]
            /\ th' = [th EXCEPT ![t] = MutexIdle(th[t].ops)]
            /\ last' = Call("allocate", NULL, NULL)
       ELSE /\ th' = [th EXCEPT ![t] = [@ EXCEPT !.pc = "a_read",
                                                 !.ptr = obj.free_list_]]
            /\ UNCHANGED <<obj, last>>
    /\ UNCHANGED <<engine, ndebug, mem, held, hist, aborted>>

\* allocate, line 65: the read of the link word of the head block
Mutex_allocate_read(t) ==
    /\ engine = "mutex"
    /\ th[t].pc = "a_read"
    /\ th' = [th EXCEPT ![t] = [@ EXCEPT !.pc = "a_store", !.next = mem[th[t].ptr]]]
    /\ UNCHANGED <<engine, ndebug, obj, mem, held, last, hist, aborted>>

\* allocate, line 66: the store of the new head
Mutex_allocate_store(t) ==
    /\ engine = "mutex"
    /\ th[t].pc = "a_store"
    /\ obj' = [obj EXCEPT !.free_list_ = th[t].next]
    /\ th' = [th EXCEPT ![t] = [@ EXCEPT !.pc = "a_add"]]
    /\ UNCHANGED <<engine, ndebug, mem, held, last, hist, aborted>>

\* allocate, lines 67-70: the counter, the return, and the unlock
Mutex_allocate_fetch_add(t) ==
    /\ engine = "mutex"
    /\ th[t].pc = "a_add"
    /\ obj' = [obj EXCEPT !.allocated_count_ = (@ + 1) % SizeMod,
                          !.mutex_ = Unlocked]
    /\ held' = [held EXCEPT ![t] = Take(@, th[t].ptr)]
    /\ last' = Call("allocate", NULL, th[t].ptr)
    /\ th' = [th EXCEPT ![t] = MutexIdle(th[t].ops)]
    /\ UNCHANGED <<engine, ndebug, mem, hist, aborted>>

\* deallocate that takes the lock before it looks at ptr
Mutex_deallocate_lock_first(t, ptr) ==
    /\ engine = "mutex"
    /\ th[t].pc = "idle" /\ th[t].ops < MaxOps
    /\ obj.mutex_ = Unlocked
    /\ obj' = [obj EXCEPT !.mutex_ = t]
    /\ th' = [th EXCEPT ![t] = [@ EXCEPT !.pc = "d_write", !.ptr = ptr,
                                         !.ops = @ + 1]]
    /\ held' = [held EXCEPT ![t] = IF ptr = NULL THEN @ ELSE Give(@, ptr)]
    /\ UNCHANGED <<engine, ndebug, mem, last, hist, aborted>>

\* deallocate, lines 74-76: the null check (a null ptr returns at once), then
\* the lock_guard acquires mutex_
Mutex_deallocate_lock(t, ptr) ==
    /\ engine = "mutex"
    /\ th[t].pc = "idle" /\ th[t].ops < MaxOps
    /\ IF ptr = NULL
       THEN /\ th' = [th EXCEPT ![t] = MutexIdle(th[t].ops + 1)]
            /\ last' = Call("deallocate", NULL, NULL)
            /\ UNCHANGED <<obj, held>>
       ELSE /\ obj.mutex_ = Unlocked
            /\ obj' = [obj EXCEPT !.mutex_ = t]
            /\ th' = [th EXCEPT ![t] = [@ EXCEPT !.pc = "d_write", !.ptr = ptr,
                                                 !.ops = @ + 1]]
            /\ held' = [held EXCEPT ![t] = Give(@, ptr)]
            /\ UNCHANGED last
    /\ UNCHANGED <<engine, ndebug, mem, hist, aborted>>

\* deallocate, line 78: the store of the head into the block's link word
Mutex_deallocate_write(t) ==
    /\ engine = "mutex"
    /\ th[t].pc = "d_write"
    /\ mem' = [mem EXCEPT ![th[t].ptr] = obj.free_list_]
    /\ th' = [th EXCEPT ![t] = [@ EXCEPT !.pc = "d_store"]]
    /\ UNCHANGED <<engine, ndebug, obj, held, last, hist, aborted>>

\* deallocate that releases the lock after the push, before the counter
Mutex_deallocate_store_unlocks(t) ==
    /\ engine = "mutex"
    /\ th[t].pc = "d_store"
    /\ obj' = [obj EXCEPT !.free_list_ = th[t].ptr, !.mutex_ = Unlocked]
    /\ th' = [th EXCEPT ![t] = [@ EXCEPT !.pc = "d_sub"]]
    /\ UNCHANGED <<engine, ndebug, mem, held, last, hist, aborted>>

\* deallocate, line 79: the store of the new head
Mutex_deallocate_store(t) ==
    /\ engine = "mutex"
    /\ th[t].pc = "d_store"
    /\ obj' = [obj EXCEPT !.free_list_ = th[t].ptr]
    /\ th' = [th EXCEPT ![t] = [@ EXCEPT !.pc = "d_sub"]]
    /\ UNCHANGED <<engine, ndebug, mem, held, last, hist, aborted>>

\* deallocate, lines 80-81: the counter, the return, and the unlock
Mutex_deallocate_fetch_sub(t) ==
    /\ engine = "mutex"
    /\ th[t].pc = "d_sub"
    /\ obj' = [obj EXCEPT !.allocated_count_ = (@ - 1) % SizeMod,
                          !.mutex_ = Unlocked]
    /\ last' = Call("deallocate", th[t].ptr, NULL)
    /\ th' = [th EXCEPT ![t] = MutexIdle(th[t].ops)]
    /\ UNCHANGED <<engine, ndebug, mem, held, hist, aborted>>

\* every thread releases null or a block it holds
MutexNext ==
    \E t \in Threads :
       \/ Mutex_allocate_lock(t)
       \/ Mutex_allocate_load(t)
       \/ Mutex_allocate_read(t)
       \/ Mutex_allocate_store(t)
       \/ Mutex_allocate_fetch_add(t)
       \/ engine = "mutex" /\ \E ptr \in HeldSet(held[t]) \cup {NULL} :
            Mutex_deallocate_lock(t, ptr)
       \/ Mutex_deallocate_write(t)
       \/ Mutex_deallocate_store(t)
       \/ Mutex_deallocate_fetch_sub(t)

SpecMutex == MutexInit /\ [][MutexNext]_vars

---------------------------------------------------------------------------
(* FreeListAllocator. The region is an array of machine words: `mem` maps   *)
(* the address of every word of the region to its content. A FreeBlock is   *)
(* the two words {size, next} at its address, an AllocationHeader the two   *)
(* words {size, adjustment} just below the pointer handed out. Requests are *)
(* whole words and alignments are at least a word, so that every access is  *)
(* to a whole word. An access outside the region, a read of a word nobody   *)
(* has written, and a walk of the list that does not end are undefined      *)
(* behaviour: the call records the fault and the allocator is not followed  *)
(* any further.                                                            *)

MaxRegionWords == 11
\* the largest region, in words, a FreeListAllocator is constructed with

MaxRequestWords == 3
\* the largest request, in words

MaxFreeListOps == 6
\* calls made on one FreeListAllocator

WordSize == 8
\* sizeof(std::size_t) and sizeof(void*)

sizeof_FreeBlock == 2 * WordSize

sizeof_AllocationHeader == 2 * WordSize

RegionBase == 32
\* the address aligned_alloc returns for the region (a multiple of 16)

Alignments == {8, 16}

Strategies == {"FirstFit", "BestFit"}

Uninit == -1
\* the content of a word nobody has written

SIZE_MAX == SizeMod - 1

RegionWords(size) == {RegionBase + i * WordSize : i \in 0 .. ((size \div WordSize) - 1)}

RegionSizes == {k * WordSize : k \in 3 .. MaxRegionWords}

RequestSizes == {k * WordSize : k \in 1 .. MaxRequestWords}

\* the state a call works on: the object, the memory, and the fault it ran into
FlState(o, m) == [obj |-> o, mem |-> m, fault |-> "none"]

FlFault(s, f) == IF s.fault = "none" THEN [s EXCEPT !.fault = f] ELSE s

\* the value a read of the word at a yields
FlLoad(s, a) == IF a \in DOMAIN s.mem THEN s.mem[a] ELSE Uninit

\* the state after a read of the word at a
FlRead(s, a) ==
    IF a \notin DOMAIN s.mem THEN FlFault(s, "out_of_region")
    ELSE IF s.mem[a] = Uninit THEN FlFault(s, "uninitialised")
    ELSE s

\* the state after a store of v to the word at a
FlStore(s, a, v) ==
    IF s.fault # "none" THEN s
    ELSE IF a \notin DOMAIN s.mem THEN FlFault(s, "out_of_region")
    ELSE [s EXCEPT !.mem = [@ EXCEPT ![a] = v]]

\* the addresses of the fields of a FreeBlock and of an AllocationHeader
size_of(block) == block

next_of(block) == (block + WordSize) % SizeMod

adjustment_of(header) == (header + WordSize) % SizeMod

\* FreeListAllocator::FreeListAllocator
FreeListAllocator_ctor(size, strategy) ==
    [size_ |-> size,
     used_memory_ |-> 0,
     num_allocations_ |-> 0,
     strategy_ |-> strategy,
     memory_ |-> RegionBase,
     free_blocks_ |-> RegionBase]

\* the region after construction: one free block that spans it
FreeListAllocator_region(size) ==
    [a \in RegionWords(size) |->
        IF a = size_of(RegionBase) THEN size
        ELSE IF a = next_of(RegionBase) THEN NULL
        ELSE Uninit]

\* FreeListAllocator::capacity, used, available, num_allocations
FreeListAllocator_capacity(o) == o.size_

FreeListAllocator_used(o) == o.used_memory_

FreeListAllocator_available(o) == (o.size_ - o.used_memory_) % SizeMod

FreeListAllocator_num_allocations(o) == o.num_allocations_

\* FreeListAllocator::align_forward_with_header
align_forward_with_header(address, alignment, header_size) ==
    LET start == (address + header_size) % SizeMod
        modulo == start % alignment
        aligned_address == IF modulo # 0
                           THEN (start + alignment - modulo) % SizeMod
                           ELSE start
    IN [aligned_address |-> aligned_address,
        adjustment |-> (aligned_address - address) % SizeMod]

\* the longest walk of a list that ends: one visit of every word of the region
WalkFuel(s) == Cardinality(DOMAIN s.mem) + 1

\* FreeListAllocator::allocate, lines 470-505: the search for a suitable block.
\* total_size is size + adjustment with the adjustment the loop declares, 0.
RECURSIVE FreeList_search(_, _, _, _, _, _, _, _)
FreeList_search(s, size, prev_block, current_block, best_block, best_prev, best_size, fuel) ==
    IF current_block = NULL
    THEN [best_block |-> best_block, best_prev |-> best_prev, state |-> s]
    ELSE IF fuel = 0
    THEN [best_block |-> NULL, best_prev |-> NULL,
          state |-> FlFault(s, "endless_walk")]
    ELSE
      LET adjustment == 0
          total_size == (size + adjustment) % SizeMod
          s1 == FlRead(s, size_of(current_block))
          current_size == FlLoad(s, size_of(current_block))
          fits == current_size >= total_size
          s2 == FlRead(s1, next_of(current_block))
          better == fits /\ s.obj.strategy_ = "BestFit" /\ current_size < best_size
      IN IF s1.fault # "none"
         THEN [best_block |-> NULL, best_prev |-> NULL, state |-> s1]
         ELSE IF fits /\ s.obj.strategy_ = "FirstFit"
         THEN [best_block |-> current_block, best_prev |-> prev_block, state |-> s1]
         ELSE IF s2.fault # "none"
         THEN [best_block |-> NULL, best_prev |-> NULL, state |-> s2]
         ELSE FreeList_search(s2, size, current_block,
                              FlLoad(s2, next_of(current_block)),
                              IF better THEN current_block ELSE best_block,
                              IF better THEN prev_block ELSE best_prev,
                              IF better THEN current_size ELSE best_size,
                              fuel - 1)

\* FreeListAllocator::allocate, lines 512-564: the selected block is split or
\* unlinked, the header is written, the counters are updated
FreeList_carve(s, best_block, best_prev, size, alignment) ==
    LET al == align_forward_with_header(best_block, alignment, sizeof_AllocationHeader)
        adjustment == al.adjustment
        total_size == (size + adjustment) % SizeMod
        remaining == (FlLoad(s, size_of(best_block)) - total_size) % SizeMod
        new_block == (best_block + total_size) % SizeMod
        a0 == FlRead(s, size_of(best_block))
        a1 == FlStore(a0, size_of(new_block), remaining)
        a2 == FlStore(FlRead(a1, next_of(best_block)), next_of(new_block),
                      FlLoad(a1, next_of(best_block)))
        a3 == IF best_prev # NULL
              THEN FlStore(a2, next_of(best_prev), new_block)
              ELSE [a2 EXCEPT !.obj.free_blocks_ = new_block]
        b1 == FlRead(a0, next_of(best_block))
        b2 == IF best_prev # NULL
              THEN FlStore(b1, next_of(best_prev), FlLoad(b1, next_of(best_block)))
              ELSE [b1 EXCEPT !.obj.free_blocks_ = FlLoad(b1, next_of(best_block))]
        linked == IF remaining > sizeof_FreeBlock THEN a3 ELSE b2
        header == (al.aligned_address - sizeof_AllocationHeader) % SizeMod
        h1 == FlStore(linked, size_of(header), total_size)
        h2 == FlStore(h1, adjustment_of(header), adjustment)
    IN [state |-> [h2 EXCEPT !.obj.used_memory_ = (@ + total_size) % SizeMod,
                             !.obj.num_allocations_ = (@ + 1) % SizeMod],
        ret |-> al.aligned_address]

\* FreeListAllocator::allocate as a function of the object and the memory
FreeListAllocator_allocate_fn(o, m, size, alignment) ==
    LET s == FlState(o, m)
        found == FreeList_search(s, size, NULL, o.free_blocks_, NULL, NULL,
                                 SIZE_MAX, WalkFuel(s))
    IN IF found.state.fault # "none" THEN [state |-> found.state, ret |-> NULL]
       ELSE IF found.best_block = NULL THEN [state |-> s, ret |-> NULL]
       ELSE FreeList_carve(s, found.best_block, found.best_prev, size, alignment)

\* FreeListAllocator::deallocate, lines 592-603: the place of the block in the
\* address-ordered list
RECURSIVE FreeList_position(_, _, _, _, _)
FreeList_position(s, block_start, prev_block, current_block, fuel) ==
    IF current_block = NULL \/ current_block > block_start
    THEN [prev_block |-> prev_block, current_block |-> current_block, state |-> s]
    ELSE IF fuel = 0
    THEN [prev_block |-> NULL, current_block |-> NULL,
          state |-> FlFault(s, "endless_walk")]
    ELSE LET s1 == FlRead(s, next_of(current_block)) IN
         IF s1.fault # "none"
         THEN [prev_block |-> NULL, current_block |-> NULL, state |-> s1]
         ELSE FreeList_position(s1, block_start, current_block,
                                FlLoad(s1, next_of(current_block)), fuel - 1)

\* FreeListAllocator::coalescence
coalescence(s, previous, current) ==
    LET n0 == FlRead(s, next_of(current))
        next == FlLoad(s, next_of(current))
        n1 == FlRead(n0, size_of(current))
        current_end == (current + FlLoad(n0, size_of(current))) % SizeMod
        n2 == FlStore(FlRead(n1, size_of(next)), size_of(current),
                      (FlLoad(n1, size_of(current)) + FlLoad(n1, size_of(next)))
                          % SizeMod)
        n3 == FlStore(FlRead(n2, next_of(next)), next_of(current),
                      FlLoad(n2, next_of(next)))
        merged_next == IF next = NULL THEN n0
                       ELSE IF current_end = next THEN n3 ELSE n1
        p1 == FlRead(merged_next, size_of(previous))
        prev_end == (previous + FlLoad(merged_next, size_of(previous))) % SizeMod
        p2 == FlStore(FlRead(p1, size_of(current)), size_of(previous),
                      (FlLoad(p1, size_of(previous)) + FlLoad(p1, size_of(current)))
                          % SizeMod)
        p3 == FlStore(FlRead(p2, next_of(current)), next_of(previous),
                      FlLoad(p2, next_of(current)))
    IN IF previous = NULL THEN merged_next
       ELSE IF prev_end = current THEN p3 ELSE p1

\* FreeListAllocator::deallocate past the null check and the assertions
FreeListAllocator_deallocate_fn(o, m, ptr) ==
    LET s == FlState(o, m)
        block_address == ptr
        header == (block_address - sizeof_AllocationHeader) % SizeMod
        r1 == FlRead(s, adjustment_of(header))
        block_start == (block_address - FlLoad(s, adjustment_of(header))) % SizeMod
        r2 == FlRead(r1, size_of(header))
        block_size == FlLoad(s, size_of(header))
        new_block == block_start
        w1 == FlStore(r2, size_of(new_block), block_size)
        w2 == FlStore(w1, next_of(new_block), NULL)
        pos == FreeList_position(w2, block_start, NULL, o.free_blocks_, WalkFuel(s))
        i1 == IF pos.prev_block # NULL
              THEN FlStore(pos.state, next_of(pos.prev_block), new_block)
              ELSE [pos.state EXCEPT !.obj.free_blocks_ = new_block]
        i2 == FlStore(i1, next_of(new_block), pos.current_block)
        merged == IF i2.fault # "none" THEN i2
                  ELSE coalescence(i2, pos.prev_block, new_block)
    IN [merged EXCEPT !.obj.used_memory_ = (@ - block_size) % SizeMod,
                      !.obj.num_allocations_ = (@ - 1) % SizeMod]

\* an assertion of FreeListAllocator::deallocate fails (assertions compiled in)
FreeListAllocator_assert_fails(o, nd) ==
    ~nd /\ ~(o.memory_ # NULL /\ o.num_allocations_ > 0)

\* the block allocate(size, alignment) selects in the state (null if none)
FreeList_selected(o, m, size) ==
    FreeList_search(FlState(o, m), size, NULL, o.free_blocks_, NULL, NULL,
                    SIZE_MAX, WalkFuel(FlState(o, m))).best_block

\* header size + alignment padding + size for a block at the address block
FreeList_needed(block, size, alignment) ==
    size + align_forward_with_header(block, alignment, sizeof_AllocationHeader).adjustment

\* allocate(size, alignment) selects a block smaller than the total it consumes
FreeList_overrun(o, m, size, alignment) ==
    LET best_block == FreeList_selected(o, m, size) IN
      /\ best_block # NULL
      /\ FlLoad(FlState(o, m), size_of(best_block)) < FreeList_needed(best_block, size, alignment)

\* What the client of the free list has seen so far (history, read by no
\* operation): the fault a call ran into, the number of calls made, whether
\* allocate returned a pointer the client still held, and whether allocate
\* carved a total larger than the block it had selected, and the one request
\* the client has repeated since construction, and whether the client has
\* released a pointer it did not hold.
FreeListHistInit ==
    [fault |-> "none", ops |-> 0, doubled |-> FALSE, overrun |-> FALSE, pattern |-> <<>>,
     violation |-> FALSE]

\* the pattern after a call: the request, while every call so far was an
\* accepted allocate of that one request; "mixed" otherwise
FreeList_pattern(pattern, request, ret) ==
    IF ret # NULL /\ pattern \in {<<>>, request} THEN request ELSE <<"mixed">>

\* the client's record of an allocation (history, read by no operation): the
\* pointer and the size asked for, the free block it was carved from, the
\* total the header records (header + padding + size), and the bytes the
\* call took off the free list: the total when the block was split (line
\* 524), the whole block when it was unlinked
FreeList_allocation(o, m, size, alignment, ret) ==
    LET best_block == FreeList_selected(o, m, size)
        block_size == FlLoad(FlState(o, m), size_of(best_block))
        total_size == FreeList_needed(best_block, size, alignment) % SizeMod
        remaining == (block_size - total_size) % SizeMod
    IN [ptr |-> ret, size |-> size, block |-> best_block, total |-> total_size,
        taken |-> IF remaining > sizeof_FreeBlock THEN total_size ELSE block_size]

\* FreeListAllocator::deallocate, lines 577-589: the free block the call
\* builds from the header in front of ptr, before it is linked and merged
FreeList_released(o, m, ptr) ==
    LET header == (ptr - sizeof_AllocationHeader) % SizeMod IN
      [block_start |-> (ptr - FlLoad(FlState(o, m), adjustment_of(header))) % SizeMod,
       block_size |-> FlLoad(FlState(o, m), size_of(header))]

\* the pointers the client holds; held is the set of its live allocations
HeldPtrs == {h.ptr : h \in held}

FreeListInit ==
    /\ engine = "freelist"
    /\ ndebug = FALSE
    /\ \E size \in RegionSizes : \E strategy \in Strategies :
         /\ obj = FreeListAllocator_ctor(size, strategy)
         /\ mem = FreeListAllocator_region(size)
    /\ held = {}
    /\ th = <<>>
    /\ last = NoCall
    /\ hist = FreeListHistInit
    /\ aborted = FALSE

\* FreeListAllocator::allocate; its assertions (size > 0, memory_) hold for
\* every request of the model
FreeListAllocator_allocate(size, alignment) ==
    /\ engine = "freelist" /\ ~aborted
    /\ hist.fault = "none" /\ hist.ops < MaxFreeListOps
    /\ LET r == FreeListAllocator_allocate_fn(obj, mem, size, alignment) IN
         IF r.state.fault # "none"
         THEN /\ hist' = [hist EXCEPT !.fault = r.state.fault, !.ops = @ + 1,
                                      !.overrun = @ \/ FreeList_overrun(obj, mem, size, alignment),
                                      !.pattern = <<"mixed">>]
              /\ last' = Call("allocate", <<size, alignment>>, NULL)
              /\ UNCHANGED <<obj, mem, held>>
         ELSE /\ obj' = r.state.obj
              /\ mem' = r.state.mem
              /\ held' = IF r.ret = NULL THEN held
                         ELSE held \cup {FreeList_allocation(obj, mem, size, alignment, r.ret)}
              /\ last' = Call("allocate", <<size, alignment>>, r.ret)
              /\ hist' = [hist EXCEPT !.ops = @ + 1,
                                      !.doubled = @ \/ r.ret \in HeldPtrs,
                                      !.overrun = @ \/ FreeList_overrun(obj, mem, size, alignment),
                                      !.pattern = FreeList_pattern(@, <<size, alignment>>, r.ret)]
    /\ UNCHANGED <<engine, ndebug, th, aborted>>

\* FreeListAllocator::deallocate
FreeListAllocator_deallocate(ptr) ==
    /\ engine = "freelist" /\ ~aborted
    /\ hist.fault = "none" /\ hist.ops < MaxFreeListOps
    /\ last' = Call("deallocate", ptr, NULL)
    /\ IF ptr = NULL
       THEN /\ hist' = [hist EXCEPT !.ops = @ + 1, !.pattern = <<"mixed">>,
                                 !.violation = @ \/ ptr \notin HeldPtrs \cup {NULL}]
            /\ UNCHANGED <<obj, mem, held, aborted>>
       ELSE IF FreeListAllocator_assert_fails(obj, ndebug)
       THEN /\ aborted' = TRUE
            /\ hist' = [hist EXCEPT !.ops = @ + 1, !.pattern = <<"mixed">>,
                                 !.violation = @ \/ ptr \notin HeldPtrs \cup {NULL}]
            /\ UNCHANGED <<obj, mem, held>>
       ELSE LET r == FreeListAllocator_deallocate_fn(obj, mem, ptr) IN
              IF r.fault # "none"
              THEN /\ hist' = [hist EXCEPT !.fault = r.fault, !.ops = @ + 1,
                                           !.pattern = <<"mixed">>,
                                           !.violation = @ \/ ptr \notin HeldPtrs \cup {NULL}]
                   /\ UNCHANGED <<obj, mem, held, aborted>>
              ELSE /\ obj' = r.obj
                   /\ mem' = r.mem
                   /\ held' = {h \in held : h.ptr # ptr}
                   /\ hist' = [hist EXCEPT !.ops = @ + 1, !.pattern = <<"mixed">>,
                                 !.violation = @ \/ ptr \notin HeldPtrs \cup {NULL}]
                   /\ UNCHANGED aborted
    /\ UNCHANGED <<engine, ndebug, th>>

\* a client that keeps the contract: it releases null or a pointer it holds
FreeListNext ==
    \/ \E size \in RequestSizes : \E alignment \in Alignments :
         FreeListAllocator_allocate(size, alignment)
    \/ engine = "freelist" /\ \E ptr \in HeldPtrs \cup {NULL} :
         FreeListAllocator_deallocate(ptr)

SpecFreeList == FreeListInit /\ [][FreeListNext]_vars

\* a client that also asks for the alignments of the alignment test above the
\* default one
WideAlignments == Alignments \cup {32}

FreeListAlignedNext ==
    \/ \E size \in RequestSizes : \E alignment \in WideAlignments :
         FreeListAllocator_allocate(size, alignment)
    \/ engine = "freelist" /\ \E ptr \in HeldPtrs \cup {NULL} :
         FreeListAllocator_deallocate(ptr)

SpecFreeListAligned == FreeListInit /\ [][FreeListAlignedNext]_vars

\* a debug build whose client may break the contract: it releases any address
\* of the region behind a header, held or not, or an address outside the
\* region. The model follows the allocator up to and including the first
\* release that breaks the contract.
FreeListPtrs ==
    {a \in DOMAIN mem : a >= obj.memory_ + sizeof_AllocationHeader}
        \cup {obj.memory_ + obj.size_ + sizeof_AllocationHeader}

FreeListDebugNext ==
    \/ \E size \in RequestSizes : \E alignment \in Alignments :
         ~hist.violation /\ FreeListAllocator_allocate(size, alignment)
    \/ engine = "freelist" /\ \E ptr \in FreeListPtrs \cup {NULL} :
         ~hist.violation /\ FreeListAllocator_deallocate(ptr)

SpecFreeListDebug == FreeListInit /\ [][FreeListDebugNext]_vars

---------------------------------------------------------------------------
(* StackAllocator. Addresses are bytes; the object is {size_, memory_,      *)
(* current_}. The client keeps the markers it got from get_marker() in      *)
(* `held`, each with the value of used() when it was taken.                *)

MaxStackSize == 20
\* the largest size, in bytes, a StackAllocator is constructed with

MaxStackRequest == 5
\* requests are of 0 .. MaxStackRequest bytes, or of the two largest size_t values

MaxMarkers == 1
\* markers a client keeps at a time

StackAlignments == {1, 2, 8, 16}

StackSizes == {MaxStackSize - 3, MaxStackSize}

StackRequests ==
    (0 .. MaxStackRequest) \cup {SizeMod - k : k \in 1 .. 2}

\* StackAllocator::StackAllocator
StackAllocator_ctor(size) ==
    [size_ |-> size, memory_ |-> RegionBase, current_ |-> RegionBase]

\* StackAllocator::used
StackAllocator_used(o) ==
    IF o.memory_ = NULL \/ o.current_ = NULL THEN 0
    ELSE (o.current_ - o.memory_) % SizeMod

\* StackAllocator::available
StackAllocator_available(o) == (o.size_ - StackAllocator_used(o)) % SizeMod

\* align_forward that always steps to the next multiple of the alignment
align_forward_always(address, alignment) ==
    (address + alignment - (address % alignment)) % SizeMod

\* StackAllocator::align_forward
align_forward(address, alignment) ==
    LET modulo == address % alignment
    IN IF modulo # 0 THEN (address + alignment - modulo) % SizeMod ELSE address

\* allocate without the test for enough space
StackAllocator_allocate_fn_unchecked(o, size, alignment) ==
    LET aligned_address == align_forward(o.current_, alignment)
    IN [obj |-> [o EXCEPT !.current_ = (aligned_address + size) % SizeMod],
        ret |-> aligned_address]

\* allocate that reserves at least one byte for every request
StackAllocator_allocate_fn_one_byte(o, size, alignment) ==
    LET aligned_address == align_forward(o.current_, alignment)
        adjustment == (aligned_address - o.current_) % SizeMod
        bytes == IF size = 0 THEN 1 ELSE size
        total_size == (bytes + adjustment) % SizeMod
    IN IF (StackAllocator_used(o) + total_size) % SizeMod > o.size_
       THEN [obj |-> o, ret |-> NULL]
       ELSE [obj |-> [o EXCEPT !.current_ = (aligned_address + bytes) % SizeMod],
             ret |-> aligned_address]

\* StackAllocator::allocate as a function of the object
StackAllocator_allocate_fn(o, size, alignment) ==
    LET current_address == o.current_
        aligned_address == align_forward(current_address, alignment)
        adjustment == (aligned_address - current_address) % SizeMod
        total_size == (size + adjustment) % SizeMod
    IN IF (StackAllocator_used(o) + total_size) % SizeMod > o.size_
       THEN [obj |-> o, ret |-> NULL]
       ELSE [obj |-> [o EXCEPT !.current_ = (aligned_address + size) % SizeMod],
             ret |-> aligned_address]

\* the assertion of StackAllocator::reset fails (assertions compiled in)
StackAllocator_reset_assert_fails(o, nd, marker) ==
    LET start_address == o.memory_
        end_address == (start_address + o.size_) % SizeMod
    IN ~nd /\ marker # NULL
           /\ ~(marker >= start_address /\ marker <= end_address)

\* reset that rewinds to the beginning whatever the marker
StackAllocator_reset_fn_to_start(o, marker) == [o EXCEPT !.current_ = o.memory_]

\* StackAllocator::reset as a function of the object
StackAllocator_reset_fn(o, marker) ==
    IF marker # NULL
    THEN [o EXCEPT !.current_ = marker]
    ELSE [o EXCEPT !.current_ = o.memory_]

StackInit ==
    /\ engine = "stack"
    /\ ndebug = FALSE
    /\ \E size \in StackSizes : obj = StackAllocator_ctor(size)
    /\ mem = <<>>
    /\ held = {}
    /\ th = <<>>
    /\ last = NoCall
    /\ hist = <<>>
    /\ aborted = FALSE

StackAllocator_allocate(size, alignment) ==
    /\ engine = "stack" /\ ~aborted
    /\ LET r == StackAllocator_allocate_fn(obj, size, alignment) IN
         /\ obj' = r.obj
         /\ last' = Call("allocate", <<size, alignment>>, r.ret)
    /\ UNCHANGED <<engine, ndebug, mem, th, held, hist, aborted>>

\* the markers the client keeps
Markers == {h.marker : h \in held}

\* StackAllocator::get_marker; the client keeps the marker
StackAllocator_get_marker ==
    /\ engine = "stack" /\ ~aborted
    /\ Cardinality(held) < MaxMarkers
    /\ obj.current_ \notin Markers
    /\ held' = held \cup {[marker |-> obj.current_,
                           used |-> StackAllocator_used(obj)]}
    /\ last' = Call("get_marker", NULL, obj.current_)
    /\ UNCHANGED <<engine, ndebug, obj, mem, th, hist, aborted>>

\* the client forgets a marker
StackDropMarker(marker) ==
    /\ engine = "stack" /\ ~aborted
    /\ marker \in Markers
    /\ held' = {h \in held : h.marker # marker}
    /\ UNCHANGED <<engine, ndebug, obj, mem, th, last, hist, aborted>>

StackAllocator_reset(marker) ==
    /\ engine = "stack" /\ ~aborted
    /\ last' = Call("reset", marker, NULL)
    /\ IF StackAllocator_reset_assert_fails(obj, ndebug, marker)
       THEN aborted' = TRUE /\ UNCHANGED obj
       ELSE obj' = StackAllocator_reset_fn(obj, marker) /\ UNCHANGED aborted
    /\ UNCHANGED <<engine, ndebug, mem, th, held, hist>>

\* a client that keeps the contract: alignments are powers of two, markers are
\* null or values get_marker() returned
StackNext ==
    \/ \E size \in StackRequests : \E alignment \in StackAlignments :
         StackAllocator_allocate(size, alignment)
    \/ StackAllocator_get_marker
    \/ engine = "stack" /\ \E marker \in Markers : StackDropMarker(marker)
    \/ engine = "stack" /\ \E marker \in Markers \cup {NULL} : StackAllocator_reset(marker)

SpecStack == StackInit /\ [][StackNext]_vars

---------------------------------------------------------------------------
(* Construction, move and destruction. A behaviour has two variables of    *)
(* one allocator class (`engine` says which); obj maps each variable       *)
(* to its lifetime, its fields and the reservation its memory_ points to.  *)
(* Every reservation is modelled at the same addresses, so `region` is     *)
(* what tells the pointers of two reservations apart; it changes exactly   *)
(* where the code assigns memory_. mem maps a reservation to the number of *)
(* times it was handed to free() and to its words.                         *)

\* the variables of one behaviour
Objects == {1, 2}

MoveEngines == {"pool_move", "stack_move", "freelist_move"}

NoRegion == 0

\* what the constructor of the class makes: the fields and the region's words,
\* for a pool of two blocks, a stack of two bytes, a free list of two words and
\* their headers
Move_ctor ==
    CASE engine = "pool_move" ->
           [o |-> PoolAllocator_ctor(BlockSize, 2), words |-> PoolAllocator_links(2)]
      [] engine = "stack_move" ->
           [o |-> StackAllocator_ctor(2), words |-> <<>>]
      [] engine = "freelist_move" ->
           [o |-> FreeListAllocator_ctor(2 * (sizeof_AllocationHeader + WordSize), "FirstFit"),
            words |-> FreeListAllocator_region(2 * (sizeof_AllocationHeader + WordSize))]

\* the source of a move that keeps its memory_
PoolAllocator_moved_from_keeps(other) ==
    [other EXCEPT !.free_list_ = NULL, !.allocated_count_ = 0]

\* PoolAllocator's move constructor and move assignment: what is left in other
PoolAllocator_moved_from(other) ==
    [other EXCEPT !.memory_ = NULL, !.free_list_ = NULL, !.allocated_count_ = 0]

\* StackAllocator's move constructor and move assignment: what is left in other
StackAllocator_moved_from(other) ==
    [other EXCEPT !.memory_ = NULL, !.current_ = NULL, !.size_ = 0]

\* FreeListAllocator's move constructor and move assignment: what is left in
\* other
FreeListAllocator_moved_from(other) ==
    [other EXCEPT !.memory_ = NULL, !.free_blocks_ = NULL, !.size_ = 0,
                  !.used_memory_ = 0, !.num_allocations_ = 0]

moved_from(other) ==
    CASE engine = "pool_move" -> PoolAllocator_moved_from(other)
      [] engine = "stack_move" -> StackAllocator_moved_from(other)
      [] engine = "freelist_move" -> FreeListAllocator_moved_from(other)

\* the reservation a pointer copied from an object of reservation r points to
RegionOf(memory, r) == IF memory = NULL THEN NoRegion ELSE r

\* free(memory_) of an object of reservation r, guarded by if (memory_)
Move_free(m, memory, r) ==
    IF memory # NULL /\ r # NoRegion THEN [m EXCEPT ![r].released = @ + 1] ELSE m

\* the pointers that stay valid when an object of reservation r frees memory
Move_valid(h, memory, r) ==
    IF memory # NULL THEN {p \in h : p.region # r} ELSE h

MoveInit ==
    /\ engine \in MoveEngines
    /\ ndebug = FALSE
    /\ obj = [x \in Objects |-> [life |-> "unborn", o |-> <<>>, region |-> NoRegion]]
    /\ mem = [r \in Objects |-> [reserved |-> FALSE, released |-> 0, words |-> <<>>]]
    /\ held = {}
    /\ th = <<>>
    /\ last = NoCall
    /\ hist = [moved |-> FALSE, self |-> FALSE, via |-> FALSE]
    /\ aborted = FALSE

\* T x(...): the constructor reserves a region
Move_construct(x) ==
    /\ engine \in MoveEngines /\ ~aborted
    /\ obj[x].life = "unborn"
    /\ obj' = [obj EXCEPT ![x] = [life |-> "alive", o |-> Move_ctor.o, region |-> x]]
    /\ mem' = [mem EXCEPT ![x] = [reserved |-> TRUE, released |-> 0,
                                  words |-> Move_ctor.words]]
    /\ last' = Call("construct", x, NULL)
    /\ UNCHANGED <<engine, ndebug, th, held, hist, aborted>>

\* T x(std::move(y)): the move constructor
Move_move_construct(x, y) ==
    /\ engine \in MoveEngines /\ ~aborted
    /\ x # y /\ obj[x].life = "unborn" /\ obj[y].life = "alive"
    /\ LET left == moved_from(obj[y].o) IN
         obj' = [obj EXCEPT
                   ![x] = [life |-> "alive", o |-> obj[y].o,
                           region |-> RegionOf(obj[y].o.memory_, obj[y].region)],
                   ![y] = [@ EXCEPT !.o = left,
                                    !.region = RegionOf(left.memory_, @)]]
    /\ last' = Call("move_construct", <<x, y>>, NULL)
    /\ hist' = [hist EXCEPT !.moved = TRUE]
    /\ UNCHANGED <<engine, ndebug, mem, th, held, aborted>>

\* x = std::move(y): the move assignment, x and y the same variable or not
Move_move_assign(x, y) ==
    /\ engine \in MoveEngines /\ ~aborted
    /\ obj[x].life = "alive" /\ obj[y].life = "alive"
    /\ last' = Call("move_assign", <<x, y>>, NULL)
    /\ IF x # y
       THEN LET left == moved_from(obj[y].o) IN
              /\ mem' = Move_free(mem, obj[x].o.memory_, obj[x].region)
              /\ held' = Move_valid(held, obj[x].o.memory_, obj[x].region)
              /\ obj' = [obj EXCEPT
                           ![x] = [@ EXCEPT !.o = obj[y].o,
                                            !.region = RegionOf(obj[y].o.memory_, obj[y].region)],
                           ![y] = [@ EXCEPT !.o = left,
                                            !.region = RegionOf(left.memory_, @)]]
              /\ hist' = [hist EXCEPT !.moved = TRUE]
       ELSE /\ hist' = [hist EXCEPT !.self = TRUE]
            /\ UNCHANGED <<obj, mem, held>>
    /\ UNCHANGED <<engine, ndebug, th, aborted>>

\* the destructor of x
Move_destroy(x) ==
    /\ engine \in MoveEngines /\ ~aborted
    /\ obj[x].life = "alive"
    /\ mem' = Move_free(mem, obj[x].o.memory_, obj[x].region)
    /\ held' = Move_valid(held, obj[x].o.memory_, obj[x].region)
    /\ obj' = [obj EXCEPT ![x].life = "dead"]
    /\ last' = Call("destroy", x, NULL)
    /\ UNCHANGED <<engine, ndebug, th, hist, aborted>>

\* x.allocate(...) on an object that owns a region: one block of a pool, one
\* byte of a stack, one word of a free list
Move_allocate(x) ==
    /\ engine \in MoveEngines /\ ~aborted
    /\ obj[x].life = "alive" /\ obj[x].region # NoRegion
    /\ mem[obj[x].region].released = 0
    /\ LET r == obj[x].region
           o == obj[x].o
           pool == PoolAllocator_allocate_fn(o, mem[r].words)
           stack == StackAllocator_allocate_fn(o, 1, 1)
           list == FreeListAllocator_allocate_fn(o, mem[r].words, WordSize, WordSize)
           after == CASE engine = "pool_move" ->
                           [o |-> pool.obj, words |-> mem[r].words, ret |-> pool.ret]
                      [] engine = "stack_move" ->
                           [o |-> stack.obj, words |-> mem[r].words, ret |-> stack.ret]
                      [] engine = "freelist_move" ->
                           [o |-> list.state.obj, words |-> list.state.mem, ret |-> list.ret]
       IN /\ obj' = [obj EXCEPT ![x].o = after.o]
          /\ mem' = [mem EXCEPT ![r].words = after.words]
          /\ held' = IF after.ret = NULL \/ engine = "stack_move" THEN held
                     ELSE held \cup {[region |-> r, ptr |-> after.ret, from |-> x]}
          /\ last' = Call("allocate", x, after.ret)
    /\ UNCHANGED <<engine, ndebug, th, hist, aborted>>

\* x.deallocate(p.ptr) of a pointer the client holds, on the object whose
\* memory_ is the region the pointer lies in
Move_deallocate(x, p) ==
    /\ engine \in {"pool_move", "freelist_move"} /\ ~aborted
    /\ p \in held
    /\ obj[x].life = "alive" /\ obj[x].region = p.region
    /\ last' = Call("deallocate", x, p.ptr)
    /\ hist' = [hist EXCEPT !.via = @ \/ p.from # x]
    /\ LET r == obj[x].region
           o == obj[x].o
           pool == PoolAllocator_deallocate_fn(o, mem[r].words, p.ptr)
           list == FreeListAllocator_deallocate_fn(o, mem[r].words, p.ptr)
           fails == IF engine = "pool_move" THEN PoolAllocator_assert_fails(o, ndebug)
                    ELSE FreeListAllocator_assert_fails(o, ndebug)
       IN IF fails
          THEN aborted' = TRUE /\ UNCHANGED <<obj, mem, held>>
          ELSE /\ obj' = [obj EXCEPT ![x].o = IF engine = "pool_move" THEN pool.obj
                                              ELSE list.obj]
               /\ mem' = [mem EXCEPT ![r].words = IF engine = "pool_move" THEN pool.mem
                                                  ELSE list.mem]
               /\ held' = held \ {p}
               /\ UNCHANGED aborted
    /\ UNCHANGED <<engine, ndebug, th>>

MoveNext ==
    \/ \E x \in Objects : Move_construct(x)
    \/ \E x, y \in Objects : Move_move_construct(x, y)
    \/ \E x, y \in Objects : Move_move_assign(x, y)
    \/ \E x \in Objects : Move_destroy(x)
    \/ \E x \in Objects : Move_allocate(x)
    \/ engine \in MoveEngines /\ \E x \in Objects : \E p \in held : Move_deallocate(x, p)

SpecMove == MoveInit /\ [][MoveNext]_vars

---------------------------------------------------------------------------
(* Every engine: a behaviour constructs one allocator of any kind *)

EnginesInit == PoolInit \/ TaggedInit \/ MutexInit \/ FreeListInit

EnginesNext == PoolNext \/ TaggedNext \/ MutexNext \/ FreeListNext

SpecEngines == EnginesInit /\ [][EnginesNext]_vars

---------------------------------------------------------------------------
(* Claims about the tagged lock-free ThreadSafePoolAllocator *)

\* C1: in every interleaving no slot address is held by two live allocations
\* at the same time.
C1_NoDoubleAllocation ==
    engine = "tagged" => \A a \in Slots(capacity) : HoldersOf(a, Threads) <= 1

C1_Witness ==
    /\ engine = "tagged"
    /\ \A t \in Threads : HeldSet(held[t]) # {}
    /\ obj.free_list_.tag >= 3
    /\ last.op = "allocate" /\ last.ret # NULL

\* C2: in every reachable state, the states between a head CAS and the
\* counter update included, allocated() is within [0, capacity()].
C2_CounterInRange ==
    engine = "tagged" => (0 <= allocated /\ allocated <= capacity)

\* C3: once all threads have finished and every allocated pointer has been
\* deallocated exactly once by its holder, allocated() is 0.
C3_AllReleasedCountsZero ==
    (engine = "tagged" /\ Quiescent /\ \A t \in Threads : HeldSet(held[t]) = {})
        => allocated = 0

C3_Witness ==
    /\ engine = "tagged" /\ Quiescent
    /\ \A t \in Threads : HeldSet(held[t]) = {} /\ th[t].ops = MaxOps
    /\ obj.free_list_.tag >= 4
    /\ capacity = 1

\* C4: every call takes effect at one of its own steps (allocate at its
\* successful CAS or at the load that saw a null head, deallocate at its
\* successful CAS) as the same call of the single-threaded PoolAllocator on
\* the same free chain: same result, same chain afterwards; no other step
\* changes the chain.
C4_Linearizable ==
    [][/\ \A t \in Threads :
            (Tagged_allocate_cas(t) /\ th'[t].pc = "a_add") =>
                LET r == PoolAllocator_allocate_fn(SequentialPool, mem) IN
                  /\ r.ret = th'[t].old_head.ptr
                  /\ r.ret # NULL
                  /\ TaggedChain' = ChainFrom(r.obj.free_list_, mem, capacity + 1)
       /\ \A t \in Threads :
            ((Tagged_allocate_load(t) \/ Tagged_allocate_cas(t)) /\ th'[t].pc = "idle") =>
                /\ last'.ret = PoolAllocator_allocate_fn(SequentialPool, mem).ret
                /\ last'.ret = NULL
                /\ TaggedChain' = TaggedChain
       /\ \A t \in Threads :
            (Tagged_deallocate_cas(t) /\ th'[t].pc = "d_sub") =>
                LET r == PoolAllocator_deallocate_fn(SequentialPool, mem, th[t].ptr) IN
                  TaggedChain' = ChainFrom(r.obj.free_list_, r.mem, capacity + 1)
       /\ (\A t \in Threads : th'[t].pc \notin {"a_add", "d_sub"} \/ th'[t].pc = th[t].pc)
            => \/ (obj'.free_list_ = obj.free_list_ /\ mem' = mem)
               \/ TaggedChain' = TaggedChain
       /\ \A t \in Threads :
            Tagged_allocate_fetch_add(t) => last'.ret = th[t].old_head.ptr
      ]_vars

C4_Witness ==
    /\ engine = "tagged"
    /\ th[1].pc = "a_add" /\ th[2].pc = "d_sub"
    /\ th[1].old_head.ptr = th[2].ptr

---------------------------------------------------------------------------
(* Claims about PoolAllocator *)

\* C5: on a freshly constructed pool of capacity C the first C allocate calls
\* return non-null, pairwise distinct slot addresses of the region, and call
\* C + 1 returns null while allocated() stays C and is_full() holds.
C5_ExhaustionBoundary ==
    (engine = "pool" /\ hist.filling) =>
        /\ \A i \in 1 .. Len(hist.fill) :
             IF i <= capacity
             THEN hist.fill[i] # NULL /\ hist.fill[i] \in Slots(capacity)
             ELSE hist.fill[i] = NULL
        /\ NoDuplicates(hist.fill)
        /\ allocated = Min(Len(hist.fill), capacity)
        /\ (Len(hist.fill) >= capacity => is_full)
        /\ (Len(hist.fill) < capacity => ~is_full)

C5_Witness ==
    /\ engine = "pool" /\ hist.filling
    /\ capacity = MaxBlocks
    /\ Len(hist.fill) = capacity + 1
    /\ last = Call("allocate", NULL, NULL)

\* C6: every slot is either held by exactly one live caller or linked into the
\* free chain exactly once, never both; the chain is acyclic and
\* null-terminated and its length plus allocated() is capacity().
C6_SlotInvariant ==
    engine = "pool" =>
        /\ ReachesNull(obj.free_list_, mem, capacity)
        /\ NoDuplicates(PoolChain)
        /\ \A a \in DOMAIN held : held[a] <= 1
        /\ Range(PoolChain) \cap HeldSet(held) = {}
        /\ Range(PoolChain) \cup HeldSet(held) = Slots(capacity)
        /\ Len(PoolChain) + allocated = capacity

C6_Witness ==
    /\ engine = "pool"
    /\ last.op = "deallocate" /\ last.arg # NULL
    /\ ~hist.filling
    /\ HeldSet(held) # {}
    /\ Len(PoolChain) >= 2
    /\ PoolChain[1] > PoolChain[2]

\* C7: when every allocated pointer has been deallocated exactly once,
\* allocated() is 0, capacity() is what the constructor was given and a
\* further capacity() allocations all succeed.
C7_Balance ==
    (engine = "pool" /\ HeldSet(held) = {}) =>
        /\ allocated = 0
        /\ capacity = hist.block_count
        /\ LET rets == AllocateTimes(obj, mem, capacity) IN
             /\ \A i \in 1 .. capacity : rets[i] \in Slots(capacity)
             /\ NoDuplicates(rets)

C7_Witness ==
    /\ engine = "pool"
    /\ HeldSet(held) = {}
    /\ hist.draining
    /\ last.op = "deallocate" /\ last.arg # NULL
    /\ obj.free_list_ # MemBase

\* C8: once the pool has been exhausted and blocks have been released, a
\* successful allocate returns the most recently released block that has not
\* been handed out again, and allocate succeeds exactly while such a block
\* remains.
C8_AddressReuse ==
    [][(PoolAllocator_allocate /\ hist.draining) =>
          /\ (last'.ret # NULL) <=> (hist.freed # <<>>)
          /\ (last'.ret # NULL) => (last'.ret = Head(hist.freed))]_vars

C8_Witness ==
    /\ engine = "pool" /\ hist.draining
    /\ last.op = "allocate" /\ last.ret # NULL
    /\ Len(hist.freed) >= 1
    /\ HeldSet(held) # Slots(capacity)

\* C10: in a debug build every deallocate(p) of a pointer that is already on
\* the free chain (double release) or is no slot of this pool (foreign
\* pointer) trips an assertion and leaves the pool and its memory as they were.
C10_ViolationsAsserted ==
    [][\A ptr \in Addrs(obj.block_count_) :
          (PoolAllocator_deallocate(ptr) /\ ~ndebug /\ held[ptr] = 0) =>
              (aborted' /\ obj' = obj /\ mem' = mem)]_vars

---------------------------------------------------------------------------
(* Claims about every engine *)

\* C9: deallocate(nullptr) is a no-op in every engine: on PoolAllocator, on
\* ThreadSafePoolAllocator (mutex and tagged variant) and on FreeListAllocator
\* the call returns at once and leaves the object (free chain or free list
\* head, counters, tagged head, lock), the memory, the client's holdings and
\* the abort flag as they were, whoever holds the lock and however many
\* allocations are live; no thread is ever past the null check of deallocate
\* with a null pointer.
C9_NullReleaseIsNoOp ==
    [][/\ PoolAllocator_deallocate(NULL) => UNCHANGED <<obj, mem, held, hist, aborted>>
       /\ \A t \in Threads :
            Mutex_deallocate_lock(t, NULL) =>
                /\ UNCHANGED <<obj, mem, held, aborted>>
                /\ th'[t].pc = "idle"
       /\ \A t \in Threads :
            Tagged_deallocate_load(t, NULL) =>
                /\ UNCHANGED <<obj, mem, held, aborted>>
                /\ th'[t].pc = "idle"
       /\ FreeListAllocator_deallocate(NULL) =>
                /\ UNCHANGED <<obj, mem, held, aborted>>
                /\ hist'.fault = "none"
       /\ engine \in {"mutex", "tagged"} =>
            \A t \in Threads :
               th'[t].pc \in {"d_write", "d_store", "d_cas", "d_sub"} =>
                   th'[t].ptr # NULL
      ]_vars

C9_Witness ==
    /\ engine = "mutex"
    /\ last = Call("deallocate", NULL, NULL)
    /\ th[1].pc = "idle" /\ th[1].ops = 1
    /\ th[2].pc = "a_load" /\ obj.mutex_ = 2
    /\ obj.allocated_count_ = 0
    /\ obj.free_list_ = MemBase

---------------------------------------------------------------------------
(* Claims about StackAllocator *)

stack_capacity == obj.size_

\* the step is a call of allocate; last' holds its arguments and its result
StackAllocateStep ==
    engine = "stack" /\ last'.op = "allocate" /\ obj'.size_ = obj.size_ /\ held' = held

\* C11: after any sequence of allocate calls with power-of-two alignments and
\* reset calls with a null marker or one get_marker() returned, the cursor lies
\* in [region start, region start + capacity], 0 <= used() <= capacity() and
\* used() + available() = capacity().
C11_CursorInRegion ==
    engine = "stack" =>
        /\ obj.memory_ <= obj.current_
        /\ obj.current_ <= obj.memory_ + stack_capacity
        /\ 0 <= StackAllocator_used(obj)
        /\ StackAllocator_used(obj) <= stack_capacity
        /\ StackAllocator_used(obj) + StackAllocator_available(obj) = stack_capacity

C11_Witness ==
    /\ engine = "stack"
    /\ last.op = "allocate" /\ last.ret # NULL
    /\ last.arg[2] = 8
    /\ StackAllocator_used(obj) = stack_capacity
    /\ held # {}

\* C12: allocate(size, alignment) returns null exactly when the aligned start
\* address plus size lies beyond the region end, and a call that returns null
\* leaves the cursor (so used() and available()) as it was.
C12_ExhaustionExact ==
    [][\A size \in StackRequests : \A alignment \in StackAlignments :
          StackAllocator_allocate(size, alignment) =>
              LET aligned_address == align_forward(obj.current_, alignment) IN
                /\ (last'.ret = NULL) <=>
                       (aligned_address + size > obj.memory_ + obj.size_)
                /\ (last'.ret = NULL) => (obj' = obj)]_vars

\* C13 as stated: in every state allocate(0, alignment) returns a non-null
\* pointer and used() after the call equals used() before it.
C13_ZeroSizeKeepsCursor ==
    [][\A alignment \in StackAlignments :
          StackAllocator_allocate(0, alignment) =>
              /\ last'.ret # NULL
              /\ StackAllocator_used(obj') = StackAllocator_used(obj)]_vars

\* C13 amended: allocate(0, alignment) returns the cursor rounded up to the
\* alignment and moves the cursor there, so used() grows by the alignment
\* padding and by nothing else; it returns null, and changes nothing, exactly
\* when the padding does not fit into available(). When the cursor is a
\* multiple of the alignment the call returns non-null and used() is unchanged.
C13_ZeroSizeAdvancesByPadding ==
    [][(StackAllocateStep /\ last'.arg[1] = 0) =>
          LET alignment == last'.arg[2]
              aligned_address == align_forward(obj.current_, alignment)
              padding == aligned_address - obj.current_
          IN /\ (last'.ret = NULL) <=> (padding > StackAllocator_available(obj))
             /\ (last'.ret = NULL) => (obj' = obj)
             /\ (last'.ret # NULL) =>
                    /\ last'.ret = aligned_address
                    /\ obj'.current_ = aligned_address
                    /\ StackAllocator_used(obj') = StackAllocator_used(obj) + padding
             /\ (obj.current_ % alignment = 0) =>
                    /\ last'.ret # NULL
                    /\ StackAllocator_used(obj') = StackAllocator_used(obj)]_vars

C13_Witness ==
    /\ engine = "stack"
    /\ last = Call("allocate", <<0, 8>>, obj.current_)
    /\ \E m \in Markers : m % 8 # 0 /\ align_forward(m, 8) = obj.current_

\* C14: reset(m) with a marker m taken by get_marker() when used() was u
\* restores used() = u, whatever was allocated or reset since; reset() with no
\* marker restores used() = 0 and available() = capacity() from any state.
\* Neither trips the assertion.
C14_RewindRoundTrip ==
    [][/\ \A h \in (IF engine = "stack" THEN held ELSE {}) :
            StackAllocator_reset(h.marker) =>
                /\ StackAllocator_used(obj') = h.used
                /\ ~aborted'
       /\ StackAllocator_reset(NULL) =>
            /\ StackAllocator_used(obj') = 0
            /\ StackAllocator_available(obj') = stack_capacity
            /\ ~aborted'
      ]_vars

C14_Witness ==
    /\ engine = "stack"
    /\ last.op = "reset" /\ last.arg # NULL
    /\ \E h \in held : /\ h.marker = last.arg
                       /\ h.used = 16
                       /\ StackAllocator_used(obj) = h.used

\* C15: a successful allocate(size, A) with A a power of two returns the
\* smallest address a >= the cursor before the call with a mod A = 0, and
\* sets the cursor to a + size (an address: modulo 2^w).
C15_AlignedAddress ==
    [][(StackAllocateStep /\ last'.ret # NULL) =>
          LET size == last'.arg[1]
              alignment == last'.arg[2]
          IN /\ last'.ret >= obj.current_
             /\ last'.ret % alignment = 0
             /\ \A a \in obj.current_ .. (last'.ret - 1) : a % alignment # 0
             /\ obj'.current_ = (last'.ret + size) % SizeMod]_vars

C15_Witness ==
    /\ engine = "stack"
    /\ last.op = "allocate" /\ last.arg = <<3, 16>>
    /\ last.ret = RegionBase + 16
    /\ obj.current_ = last.ret + 3
    /\ \E m \in Markers : m > RegionBase /\ m < last.ret

(***************************************************************************)
(* Claims about FreeListAllocator                                          *)
(***************************************************************************)

FreeListAllocateStep ==
    engine = "freelist" /\ last'.op = "allocate" /\ hist'.ops = hist.ops + 1

\* the free list: the addresses of its blocks in list order
RECURSIVE FreeList_blocks(_, _, _)
FreeList_blocks(m, block, fuel) ==
    IF block = NULL \/ fuel = 0 THEN <<>>
    ELSE IF size_of(block) \notin DOMAIN m \/ next_of(block) \notin DOMAIN m THEN <<block>>
    ELSE <<block>> \o FreeList_blocks(m, m[next_of(block)], fuel - 1)

free_list == FreeList_blocks(mem, obj.free_blocks_, Cardinality(DOMAIN mem))

\* C18: allocate(size, alignment) carves an allocation only out of a free
\* block whose size is at least header size + alignment padding + size for
\* that block's address, so the consumed total never exceeds the selected
\* block's size; if no free block is that large it returns null.
C18_FitCheck ==
    [][FreeListAllocateStep =>
          LET size == last'.arg[1]
              alignment == last'.arg[2]
              best_block == FreeList_selected(obj, mem, size)
              large_enough == {b \in Range(free_list) :
                                  mem[b] >= FreeList_needed(b, size, alignment)}
          IN /\ (best_block # NULL) => best_block \in large_enough
             /\ (large_enough = {}) => (last'.ret = NULL /\ hist'.fault = "none")]_vars

\* the size the free block at the address block records
free_size(block) == FlLoad(FlState(obj, mem), size_of(block))

\* C17: after every completed allocate and deallocate no two free blocks
\* overlap, every free block lies inside the region, and no free block ends
\* where the next free block of the list starts.
C17_FreeListShape ==
    (engine = "freelist" /\ hist.fault = "none") =>
        /\ \A i \in DOMAIN free_list :
             /\ free_list[i] >= obj.memory_
             /\ free_size(free_list[i]) >= 0
             /\ free_list[i] + free_size(free_list[i]) <= obj.memory_ + obj.size_
        /\ \A i, j \in DOMAIN free_list :
             (i # j) => \/ free_list[i] + free_size(free_list[i]) <= free_list[j]
                        \/ free_list[j] + free_size(free_list[j]) <= free_list[i]
        /\ \A i \in DOMAIN free_list :
             (i + 1 \in DOMAIN free_list) =>
                 free_list[i] + free_size(free_list[i]) # free_list[i + 1]

\* the free blocks large enough for allocate(size, alignment)
FreeList_large_enough(size, alignment) ==
    {b \in Range(free_list) : free_size(b) >= FreeList_needed(b, size, alignment)}

\* C19: whenever some free block is at least header + alignment padding +
\* payload bytes large, allocate returns non-null; so after every other of k
\* equal blocks was deallocated, a request no larger than a freed payload
\* succeeds.
C19_FindsFreedSpace ==
    [][(FreeListAllocateStep /\ FreeList_large_enough(last'.arg[1], last'.arg[2]) # {}) =>
          (last'.ret # NULL /\ hist'.fault = "none")]_vars

\* C20: when allocate returns null, the free list (addresses, sizes, order),
\* used(), available() and num_allocations() are as before the call; and while
\* a fresh allocator is asked for one request again and again, it accepts the
\* request as long as header + padding + size fit behind what is used, and
\* rejects it with null from then on.
C20_ExhaustionNoSideEffects ==
    [][FreeListAllocateStep =>
          LET size == last'.arg[1]
              alignment == last'.arg[2]
              cursor == obj.memory_ + FreeListAllocator_used(obj)
              fits == cursor + FreeList_needed(cursor, size, alignment)
                          <= obj.memory_ + FreeListAllocator_capacity(obj)
          IN /\ (last'.ret = NULL /\ hist'.fault = "none") =>
                    (obj' = obj /\ mem' = mem /\ held' = held)
             /\ (hist.pattern \in {<<>>, last'.arg}) =>
                    /\ hist'.fault = "none"
                    /\ (last'.ret # NULL) <=> fits]_vars

\* C21: in a debug build every deallocate(p) of a pointer the client does not
\* hold (one it has deallocated already, or one it never obtained from this
\* allocator) trips an assertion and inserts no block into the free list.
C21_ViolationsAsserted ==
    [][(engine = "freelist" /\ ~ndebug /\ last'.op = "deallocate"
            /\ hist'.ops = hist.ops + 1 /\ last'.arg \notin HeldPtrs \cup {NULL}) =>
          (aborted' /\ obj' = obj /\ mem' = mem)]_vars

\* C22: for every power-of-two alignment A, an allocate(size, A) that selects
\* a block returns a pointer p with p mod A == 0, records an adjustment with
\* header size <= adjustment < header size + A, and its allocation header at
\* p - header size lies inside the selected block, at or after its start.
C22_AlignedBehindHeader ==
    [][FreeListAllocateStep =>
          LET size == last'.arg[1]
              alignment == last'.arg[2]
              best_block == FreeList_selected(obj, mem, size)
              al == align_forward_with_header(best_block, alignment, sizeof_AllocationHeader)
              header == al.aligned_address - sizeof_AllocationHeader
          IN (best_block # NULL) =>
                /\ (hist'.fault = "none") => (last'.ret = al.aligned_address)
                /\ al.aligned_address % alignment = 0
                /\ sizeof_AllocationHeader <= al.adjustment
                /\ al.adjustment < sizeof_AllocationHeader + alignment
                /\ header >= best_block
                /\ header + sizeof_AllocationHeader <= best_block + free_size(best_block)]_vars

(***************************************************************************)
(* Claims about construction, move and destruction                         *)
(***************************************************************************)

\* the live objects of ob whose memory_ points to the reservation r
MoveOwners(ob, r) ==
    {x \in Objects : ob[x].life = "alive" /\ ob[x].o.memory_ # NULL /\ ob[x].region = r}

\* capacity() and the usage counter of an object of the class
Move_capacity(o) ==
    IF engine = "pool_move" THEN o.block_count_ ELSE o.size_

Move_usage(o) ==
    CASE engine = "pool_move" -> o.allocated_count_
      [] engine = "stack_move" -> StackAllocator_used(o)
      [] engine = "freelist_move" -> o.num_allocations_

\* C23: for PoolAllocator, StackAllocator and FreeListAllocator, across
\* construction, move construction, move assignment (self-assignment too)
\* and destruction, no region is released twice, a region not yet released is
\* owned by exactly one live object, and once no object is alive every
\* reserved region has been released once. After a move the destination has
\* the source's fields (capacity and usage counters among them), the source
\* owns no region, and the destination accepts deallocate of the source's
\* pointers; a self-assignment changes nothing.
C23_RegionOwnership ==
    [][(engine \in MoveEngines) =>
          /\ \A r \in Objects :
               /\ mem'[r].released <= 1
               /\ (mem'[r].reserved /\ mem'[r].released = 0) =>
                      Cardinality(MoveOwners(obj', r)) = 1
               /\ (mem'[r].released = 1) => MoveOwners(obj', r) = {}
          /\ (\A x \in Objects : obj'[x].life # "alive") =>
                 \A r \in Objects : mem'[r].reserved => mem'[r].released = 1
          /\ (last'.op \in {"move_construct", "move_assign"}) =>
                 LET x == last'.arg[1]
                     y == last'.arg[2]
                 IN IF x = y THEN obj' = obj /\ mem' = mem /\ held' = held
                    ELSE /\ obj'[x].o = obj[y].o
                         /\ Move_capacity(obj'[x].o) = Move_capacity(obj[y].o)
                         /\ Move_usage(obj'[x].o) = Move_usage(obj[y].o)
                         /\ obj'[x].region = obj[y].region
                         /\ obj'[y].o.memory_ = NULL
                         /\ MoveOwners(obj', obj[y].region) \subseteq {x}
          /\ (last'.op = "deallocate") =>
                 /\ ~aborted'
                 /\ Move_usage(obj'[last'.arg].o) = Move_usage(obj[last'.arg].o) - 1]_vars

\* both objects were constructed, one was assigned to itself and then took
\* over the other, it released a pointer the other had handed out, and both
\* are destroyed
C23_Witness ==
    /\ engine = "pool_move"
    /\ hist.moved /\ hist.self /\ hist.via
    /\ \A x \in Objects : obj[x].life = "dead"
    /\ \A r \in Objects : mem[r].reserved /\ mem[r].released = 1

---------------------------------------------------------------------------
\* a step of the tagged variant in which thread t's compare-and-swap on the
\* head succeeds (allocate line 400, deallocate line 434)
Tagged_cas_succeeds(t) ==
    /\ engine = "tagged"
    /\ \/ th[t].pc = "a_cas" /\ th'[t].pc = "a_add"
       \/ th[t].pc = "d_cas" /\ th'[t].pc = "d_sub"

\* C24: in the tagged variant every successful compare-and-swap on the head,
\* in allocate and in deallocate, installs the tag of the head it replaced
\* plus one, and no other step changes the head; so the tag never repeats:
\* a head a thread loaded earlier has a tag at most the current one, and the
\* same tag only when it is the current head itself (no two updates produce
\* the same (pointer, tag) pair).
C24_TagMonotonic ==
    [][(engine = "tagged") =>
         /\ (\A t \in Threads :
               Tagged_cas_succeeds(t) =>
                  obj'.free_list_.tag = obj.free_list_.tag + 1)
         /\ ((\A t \in Threads : ~Tagged_cas_succeeds(t)) =>
               obj'.free_list_ = obj.free_list_)
         /\ (\A t \in Threads :
               th'[t].pc # "idle" =>
                  /\ th'[t].old_head.tag <= obj'.free_list_.tag
                  /\ (th'[t].old_head.tag = obj'.free_list_.tag =>
                        th'[t].old_head = obj'.free_list_))]_vars

\* a release has swapped the head after two earlier swaps, while another
\* thread still carries a head it loaded before them: same pointer as the
\* current head, older tag
C24_Witness ==
    /\ engine = "tagged"
    /\ \E t, u \in Threads :
         /\ th[t].pc = "d_sub"
         /\ th[u].pc = "a_cas"
         /\ th[u].old_head.ptr = obj.free_list_.ptr
         /\ th[u].old_head.tag + 3 <= obj.free_list_.tag

---------------------------------------------------------------------------
(* Claims about the untagged compare-and-swap variant *)

\* the number of owners of block a outside the pool: live allocations, a
\* block popped by a call that has not returned yet, and a block passed to a
\* deallocate that has not pushed it yet
RECURSIVE OwnersOf(_, _)
OwnersOf(a, ts) ==
    IF ts = {} THEN 0
    ELSE LET t == CHOOSE x \in ts : TRUE IN
         held[t][a]
         + (IF th[t].pc = "a_add" /\ th[t].old_head.ptr = a THEN 1 ELSE 0)
         + (IF th[t].pc \in {"d_write", "d_cas"} /\ th[t].ptr = a THEN 1 ELSE 0)
         + OwnersOf(a, ts \ {t})

\* the pool is sound when the free chain ends in nullptr and every slot is
\* either on the chain once or owned once; otherwise a block is owned twice,
\* owned and free at once, lost, or the chain is cyclic
ChainCorrupted ==
    \/ ~ReachesNull(obj.free_list_.ptr, mem, capacity)
    \/ \E a \in Slots(capacity) :
          OwnersOf(a, Threads)
            + Cardinality({i \in 1 .. Len(TaggedChain) : TaggedChain[i] = a}) # 1

\* C25: in the untagged variant the pool is sound until an allocate's
\* compare-and-swap succeeds with a link that is no longer the link of the
\* head block (the head pointer is the one it loaded, the chain behind it has
\* changed): that step, and no other, first puts an owned block on the free
\* chain. The interleaving that does it is reachable (C25_Witness).
C25_AbaHazard ==
    [][(engine = "untagged" /\ ~ChainCorrupted /\ ChainCorrupted') =>
         \E t \in Threads :
            /\ th[t].pc = "a_cas" /\ th'[t].pc = "a_add"
            /\ obj.free_list_.ptr = th[t].old_head.ptr
            /\ th[t].next # mem[th[t].old_head.ptr]]_vars

\* pool of two slots X -> Y: thread 1 loaded X and read Y; thread 2 popped
\* X, popped Y and pushed X; thread 1's CAS X -> Y succeeded and it got X;
\* its next allocate returned Y, which thread 2 still holds
C25_Witness ==
    /\ engine = "untagged"
    /\ capacity = 2
    /\ Quiescent
    /\ th[1].ops = 2 /\ th[2].ops = 3
    /\ held[2][SlotAddr(1)] = 1 /\ held[2][SlotAddr(0)] = 0
    /\ held[1][SlotAddr(0)] = 1 /\ held[1][SlotAddr(1)] = 1
    /\ last = Call("allocate", NULL, SlotAddr(1))

---------------------------------------------------------------------------
\* a step in which thread t's compare-and-swap on the head fails and the
\* loop goes round again
Tagged_cas_fails(t) ==
    /\ engine = "tagged"
    /\ \/ th[t].pc = "a_cas" /\ th'[t].pc \in {"a_read", "idle"}
       \/ th[t].pc = "d_cas" /\ th'[t].pc = "d_write"

\* C26 as stated: a head CAS fails only when the head is no longer the one
\* the thread loaded (another thread's CAS succeeded in between).
C26_FailsOnlyOnInterference ==
    [][\A t \in Threads :
          Tagged_cas_fails(t) => obj.free_list_ # th[t].old_head]_vars

\* C26 amended: a head CAS fails only when another thread's CAS has succeeded
\* since the thread loaded the head (the head carries a greater tag), or
\* compare_exchange_weak fails spuriously on an unchanged head; a load or a
\* failed CAS that observes a null head ends allocate at once with nullptr;
\* and with finitely many calls per thread, under a fair scheduler on which
\* the weak CAS does not fail spuriously forever, every call returns: from
\* some point on no thread is inside a call.
C26_LockFree ==
    /\ [][\A t \in Threads :
            /\ Tagged_cas_fails(t) =>
                 \/ obj.free_list_.tag > th[t].old_head.tag
                 \/ /\ obj.free_list_ = th[t].old_head
                    /\ \/ Tagged_allocate_cas_spurious(t)
                       \/ Tagged_deallocate_cas_spurious(t)
            /\ ( /\ engine = "tagged"
                 /\ obj.free_list_.ptr = NULL
                 /\ \/ th[t].pc = "idle" /\ Tagged_allocate_load(t)
                    \/ th[t].pc = "a_cas" /\ th'[t] # th[t] ) =>
                 /\ th'[t].pc = "idle"
                 /\ last' = Call("allocate", NULL, NULL)
                 /\ obj' = obj]_vars
    /\ <>[](\A t \in Threads : th[t].pc = "idle")

\* thread 1's allocate is going round its loop again on the head (tag 1) that
\* thread 2's successful CAS installed over the one both had loaded
C26_Witness ==
    /\ engine = "tagged"
    /\ th[2].pc = "a_add" /\ th[2].old_head.tag = 0
    /\ th[1].pc = "a_read" /\ th[1].ops = 1
    /\ th[1].old_head = obj.free_list_ /\ obj.free_list_.tag = 1

---------------------------------------------------------------------------
(* Claims about the mutex variant of ThreadSafePoolAllocator *)

\* the free chain of the mutex variant in the current state
MutexChain == ChainFrom(obj.free_list_, mem, obj.block_count_ + 1)

\* the single-threaded PoolAllocator with the same free chain
MutexSequentialPool ==
    [block_size_ |-> obj.block_size_,
     block_count_ |-> obj.block_count_,
     allocated_count_ |-> obj.block_count_ - Len(MutexChain),
     memory_ |-> obj.memory_,
     free_list_ |-> obj.free_list_]

\* C27: in the mutex variant a thread is inside allocate or deallocate (past
\* the null check) only while it holds the lock, so at most one thread is;
\* the calls act in the order the lock is taken as the calls of the
\* single-threaded PoolAllocator on the same free chain: the pop and the
\* push are PoolAllocator's, allocate returns what PoolAllocator::allocate
\* returns, no other step changes the chain, and when the lock is released
\* the counter is PoolAllocator's; no slot is held by two live callers.
C27_MutexSerializes ==
    [][(engine = "mutex") =>
         /\ \A t \in Threads : th'[t].pc # "idle" => obj'.mutex_ = t
         /\ \A t \in Threads :
              Mutex_allocate_store(t) =>
                 LET r == PoolAllocator_allocate_fn(MutexSequentialPool, mem) IN
                   /\ r.ret = th[t].ptr /\ r.ret # NULL
                   /\ obj'.free_list_ = r.obj.free_list_
                   /\ mem' = mem
         /\ \A t \in Threads :
              (Mutex_allocate_load(t) /\ th'[t].pc = "idle") =>
                 LET r == PoolAllocator_allocate_fn(MutexSequentialPool, mem) IN
                   /\ last'.ret = r.ret /\ r.ret = NULL
                   /\ MutexChain' = MutexChain
         /\ \A t \in Threads :
              Mutex_allocate_fetch_add(t) => last'.ret = th[t].ptr
         /\ \A t \in Threads :
              Mutex_deallocate_store(t) =>
                 LET r == PoolAllocator_deallocate_fn(MutexSequentialPool, mem,
                                                      th[t].ptr) IN
                   /\ obj'.free_list_ = r.obj.free_list_
                   /\ mem' = r.mem
         /\ (\A t \in Threads : ~Mutex_allocate_store(t) /\ ~Mutex_deallocate_store(t))
               => MutexChain' = MutexChain
         /\ (obj'.mutex_ = Unlocked) =>
               obj'.allocated_count_ = MutexSequentialPool'.allocated_count_
         /\ \A a \in Slots(capacity) : HoldersOf(a, Threads)' <= 1]_vars

\* thread 1 is pushing a block back under the lock while thread 2, which
\* has allocated twice, holds two blocks
C27_Witness ==
    /\ engine = "mutex"
    /\ obj.mutex_ = 1 /\ th[1].pc = "d_sub"
    /\ th[2].pc = "idle" /\ th[2].ops = 2
    /\ Cardinality(HeldSet(held[2])) = 2
    /\ obj.free_list_ = th[1].ptr

\* C28: in the mutex variant allocated(), read by any thread in any state
\* (between the statements of a call that holds the lock included), is
\* within [0, capacity()], and is_full() holds only when the count read
\* equals capacity().
C28_MutexCounterInRange ==
    (engine = "mutex") =>
        /\ 0 <= allocated /\ allocated <= capacity
        /\ is_full => allocated = capacity

\* a stale reading: thread 1 has popped the last block of a pool of at least
\* two and has not counted it yet; the chain is empty, allocated() is
\* capacity() - 1 and is_full() is false
C28_Witness ==
    /\ engine = "mutex"
    /\ capacity >= 2
    /\ th[1].pc = "a_add" /\ obj.mutex_ = 1
    /\ obj.free_list_ = NULL
    /\ allocated = capacity - 1
    /\ ~is_full

---------------------------------------------------------------------------
\* C29: the cursor of a StackAllocator increases only in allocate; a
\* reset(marker) that passes the in-range check (no assertion fails) leaves
\* used() less than or equal to what it was.
C29_CursorDirection ==
    [][(engine = "stack") =>
         /\ (StackAllocator_used(obj') > StackAllocator_used(obj)) =>
               last'.op = "allocate"
         /\ (last'.op = "reset" /\ ~aborted') =>
               StackAllocator_used(obj') <= StackAllocator_used(obj)]_vars

---------------------------------------------------------------------------
\* C30: after construction and after every completed allocate and
\* deallocate the free list is strictly ascending by block address (hence
\* acyclic) and its last block's next pointer is null.
C30_FreeListOrdered ==
    (engine = "freelist" /\ hist.fault = "none") =>
        /\ \A i \in DOMAIN free_list :
             (i + 1 \in DOMAIN free_list) => free_list[i] < free_list[i + 1]
        /\ (free_list # <<>>) =>
             FlLoad(FlState(obj, mem), next_of(free_list[Len(free_list)])) = NULL

---------------------------------------------------------------------------
(* Claims about the selection, the split and the release of FreeListAllocator *)

\* the free blocks of the current state that hold header + padding + size for
\* allocate(size, alignment), in list order
FreeList_fitting(size, alignment) ==
    SelectSeq(free_list,
              LAMBDA b : free_size(b) >= FreeList_needed(b, size, alignment))

\* C31: with FirstFit, an allocate that returns a pointer has used the first
\* free block of the list that fits header + padding + size, which is the
\* lowest-address one; no block before it in the list fits; and allocate
\* returns null only when no free block fits.
C31_FirstFit ==
    [][(FreeListAllocateStep /\ obj.strategy_ = "FirstFit" /\ hist'.fault = "none") =>
          LET size == last'.arg[1]
              alignment == last'.arg[2]
              best_block == FreeList_selected(obj, mem, size)
              fitting == FreeList_fitting(size, alignment)
          IN IF fitting = <<>>
             THEN last'.ret = NULL
             ELSE /\ last'.ret # NULL
                  /\ best_block = fitting[1]
                  /\ \A i \in DOMAIN fitting : best_block <= fitting[i]]_vars

\* C32: with BestFit, an allocate that returns a pointer has used a free
\* block that fits header + padding + size and is the smallest such block,
\* the lowest-address one among those of that size; allocate returns null
\* only when no free block fits.
C32_BestFit ==
    [][(FreeListAllocateStep /\ obj.strategy_ = "BestFit" /\ hist'.fault = "none") =>
          LET size == last'.arg[1]
              alignment == last'.arg[2]
              best_block == FreeList_selected(obj, mem, size)
              fitting == Range(FreeList_fitting(size, alignment))
          IN IF fitting = {}
             THEN last'.ret = NULL
             ELSE /\ last'.ret # NULL
                  /\ best_block \in fitting
                  /\ \A b \in fitting :
                       \/ free_size(best_block) < free_size(b)
                       \/ free_size(best_block) = free_size(b) /\ best_block <= b]_vars

\* the sequence s without its element i
RemoveAt(s, i) == SubSeq(s, 1, i - 1) \o SubSeq(s, i + 1, Len(s))

\* C33: an allocate that returns a pointer consumes total = header + padding
\* + size of the chosen block. When the block's size minus total is greater
\* than sizeof(FreeBlock), the block is replaced, at its place in the list,
\* by a free block at block + total of size block size - total; otherwise
\* the block is unlinked and no free block is created. The other free blocks
\* stay as they were.
C33_SplitRule ==
    [][(FreeListAllocateStep /\ last'.ret # NULL /\ hist'.fault = "none") =>
          LET size == last'.arg[1]
              alignment == last'.arg[2]
              best_block == FreeList_selected(obj, mem, size)
              total == FreeList_needed(best_block, size, alignment)
              block_size == free_size(best_block)
              i == CHOOSE k \in DOMAIN free_list : free_list[k] = best_block
          IN /\ best_block \in Range(free_list)
             /\ IF block_size - total > sizeof_FreeBlock
                THEN /\ free_list' = [free_list EXCEPT ![i] = best_block + total]
                     /\ FlLoad(FlState(obj', mem'), size_of(best_block + total))
                          = block_size - total
                ELSE free_list' = RemoveAt(free_list, i)
             /\ \A k \in DOMAIN free_list :
                  (k # i) => FlLoad(FlState(obj', mem'), size_of(free_list[k]))
                               = free_size(free_list[k])]_vars

\* the step is a call of deallocate that went through; last' holds its argument
FreeListDeallocateStep ==
    /\ engine = "freelist" /\ last'.op = "deallocate" /\ last'.arg # NULL
    /\ hist'.ops = hist.ops + 1 /\ hist'.fault = "none" /\ ~aborted'

\* C34: deallocate(p) of a live allocation builds, before it coalesces, a
\* free block that starts where the free block p was carved from started and
\* whose size is the number of bytes allocate took off the free list for p:
\* the consumed total when the block was split, the whole block when it was
\* unlinked.
C34_ReleaseRestores ==
    [][FreeListDeallocateStep =>
          \A h \in held :
             (h.ptr = last'.arg) =>
                LET new_block == FreeList_released(obj, mem, h.ptr) IN
                  /\ new_block.block_start = h.block
                  /\ new_block.block_size = h.taken]_vars

\* no free block of the list ends where its successor starts
NoAdjacentFree(o, m) ==
    LET fl == FreeList_blocks(m, o.free_blocks_, Cardinality(DOMAIN m)) IN
      \A i \in DOMAIN fl :
         (i + 1 \in DOMAIN fl) =>
             fl[i] + FlLoad(FlState(o, m), size_of(fl[i])) # fl[i + 1]

RECURSIVE RecordedTotal(_)
RecordedTotal(hs) ==
    IF hs = {} THEN 0
    ELSE LET h == CHOOSE x \in hs : TRUE IN h.total + RecordedTotal(hs \ {h})

\* C36: in every reachable state num_allocations() is the number of live
\* allocations, used() is the sum of their recorded total sizes,
\* available() is capacity() - used(), and 0 <= used() <= capacity()
C36_Accounting ==
    (engine = "freelist" /\ hist.fault = "none") =>
        /\ FreeListAllocator_num_allocations(obj) = Cardinality(held)
        /\ FreeListAllocator_used(obj) = RecordedTotal(held)
        /\ FreeListAllocator_available(obj)
              = FreeListAllocator_capacity(obj) - FreeListAllocator_used(obj)
        /\ 0 <= FreeListAllocator_used(obj)
        /\ FreeListAllocator_used(obj) <= FreeListAllocator_capacity(obj)

\* the sizes of the blocks of a free list, added up
RECURSIVE FreeBytes(_)
FreeBytes(blocks) ==
    IF blocks = <<>> THEN 0
    ELSE free_size(Head(blocks)) + FreeBytes(Tail(blocks))

\* C37: once every live allocation has been deallocated, the free list is
\* one block that starts at the region start and has size capacity(), so
\* the free block sizes plus used() add up to capacity()
C37_TeardownCoalesces ==
    (engine = "freelist" /\ hist.fault = "none" /\ ~aborted /\ held = {}) =>
        /\ free_list = <<obj.memory_>>
        /\ free_size(obj.memory_) = FreeListAllocator_capacity(obj)
        /\ FreeBytes(free_list) + FreeListAllocator_used(obj)
              = FreeListAllocator_capacity(obj)

\* two byte ranges [a, a + n) and [b, b + k) share no byte
Disjoint(a, n, b, k) == a + n <= b \/ b + k <= a

\* C38: the byte ranges [block start, block start + recorded total) of the
\* live allocations are pairwise disjoint, lie inside the region, and are
\* disjoint from every free block
C38_LiveDisjoint ==
    (engine = "freelist" /\ hist.fault = "none") =>
        /\ \A h \in held : \A k \in held \ {h} :
               Disjoint(h.block, h.total, k.block, k.total)
        /\ \A h \in held :
               /\ obj.memory_ <= h.block
               /\ h.block + h.total <= obj.memory_ + obj.size_
        /\ \A h \in held : \A i \in DOMAIN free_list :
               Disjoint(h.block, h.total, free_list[i], free_size(free_list[i]))

\* thread t reads the link word of the block at its old_head (allocate,
\* line 392)
Tagged_reads_link(t) == th[t].pc = "a_read" /\ th'[t].pc = "a_cas"

\* thread t stores into the link word of the block it releases (deallocate,
\* line 428)
Tagged_writes_link(t) == th[t].pc = "d_write" /\ th'[t].pc = "d_cas"

\* C39: in the tagged variant allocate never reads the link word of a slot
\* that a caller in another thread holds, deallocate never writes the link
\* word of a slot another thread is about to read, and every read of a link
\* word happens while the slot is on the free chain
C39_NoReadOfOwnedSlot ==
    [][(engine = "tagged") =>
          \A t \in Threads :
             /\ Tagged_reads_link(t) =>
                   /\ \A u \in Threads \ {t} : held[u][th[t].old_head.ptr] = 0
                   /\ th[t].old_head.ptr \in Range(TaggedChain)
             /\ Tagged_writes_link(t) =>
                   \A u \in Threads \ {t} :
                      ~(th[u].pc = "a_read" /\ th[u].old_head.ptr = th[t].ptr)]_vars

\* the alignment padding of a request made at the cursor of o
StackPadding(o, alignment) == align_forward(o.current_, alignment) - o.current_

\* C40: allocate(size, alignment) returns null for every size greater than
\* available() minus the alignment padding, sizes near the maximum of size_t
\* included, and no such request moves the cursor
C40_SizeArithmetic ==
    [][StackAllocateStep =>
          LET size == last'.arg[1]
              alignment == last'.arg[2]
          IN (size > StackAllocator_available(obj) - StackPadding(obj, alignment)) =>
                 /\ last'.ret = NULL
                 /\ obj'.current_ = obj.current_]_vars

====
